---------------------------- MODULE Spec2Model ----------------------------
(* Verification model of the discord.cpp core runtime:                    *)
(*   - RateLimiter / RequestQueue      (src/src/api/rate_limiter.cpp)     *)
(*   - HTTPClient request pipeline     (src/src/api/http_client.cpp)      *)
(*   - ReconnectionManager, WebSocketClient::Impl and the ShardManager's  *)
(*     view of one shard               (src/src/gateway/*.cpp)            *)
(* Time is the steady clock, counted in whole ticks.                      *)
EXTENDS Integers, Sequences, FiniteSets, TLC

(***************************************************************************)
(* Bounds of the model                                                     *)
(***************************************************************************)
MaxTime == 2
MaxQueued == 2
MaxSubmitted == 2
MaxPolicy == 1

Routes == {"r1", "r2"}
Times == 0..MaxTime
NoRet == [op |-> "none"]

\* ---- gateway: the values of the session records and of the payloads
MaxSeq == 2
MaxConnects == 2
SessionIds == {"abc"}
\* the close codes the server is let to close with
CloseCodes == {1000, 1006, 4000, 4004, 4010, 4011, 4012, 4013, 4014}
\* ReconnectionManager::SessionInfo after its clearing (and at construction)
ClearedSession == [session_id |-> "", sequence_number |-> 0, can_resume |-> FALSE]
\* ShardInfo(id, total): the fields the connection logic reads
NewShardInfo == [session_id |-> "", sequence_number |-> 0, is_connected |-> FALSE, is_resumable |-> FALSE]
NoPayload == [op |-> "none", session_id |-> "", seq |-> 0]
NoSession == [session_id |-> "", seq |-> 0]
NoAttempt == [after |-> 0, session |-> ClearedSession, built |-> NoPayload, sent |-> FALSE]
\* a reconnect sequence that has not waited, attempted or called back yet
NoRtLog == [told_owner |-> {}, waited |-> 0, before |-> [attempt |-> 0 - 1, waited |-> 0]]
\* the heartbeat: wakes of the heartbeat thread in a run, "no sequence number",
\* and the state before a HELLO has arrived
MaxBeats == 3
NoSeq == 0 - 1
NoHeartbeat == [thread |-> "none", interval |-> 0, beats |-> 0, sent |-> << >>,
                received |-> NoSeq, acked |-> FALSE, unacked_intervals |-> 0]

\* ---- ShardManager: config_.shard_count, the largest session_start_limit the
\* gateway reports, and the manager before its constructor has run
MaxShards == 2
MaxBudget == 2
ShardIds == 0..(MaxShards - 1)
NoGatewaySession == [session_start_limit_total |-> 0, session_start_limit_remaining |-> 0,
                     session_start_limit_reset_after |-> 0, last_reset |-> 0]
NoManager == [constructed |-> FALSE, max_concurrency |-> 1, session_info_ |-> NoGatewaySession,
              sessions_started_recently_ |-> 0, is_running_ |-> FALSE,
              st_pc |-> "none", i |-> 0, launched |-> << >>, waited_for_slot |-> FALSE,
              th_pc |-> [s \in ShardIds |-> "none"],
              shards_ |-> {}, shard_info_ |-> [s \in ShardIds |-> NewShardInfo],
              identities |-> << >>,
              op_pc |-> "none", op_i |-> 0, op_from |-> 0]
\* get_shard_for_guild: the longest run of free digits of a guild id, and
\* the weights of the limbs of a uint64_t (2^22 and 2^(64 - 44))
MaxSuffix == 2
TwoTo22 == 4194304
TwoTo20 == 1048576
\* no get_shard_for_guild call made
NoCall == [guild_id |-> << >>, shard_count |-> 0, result |-> 0 - 1]

\* ---- CacheManager: time points of the system clock are counted in seconds
\* from the start of the run; time_point::max() is kept apart
MaxEntries == 2
TwoTo30 == 1073741824
ClockStart == 1700000000
CacheKeys == {"a", "b"}
CacheValues == {1, 2}
TimePointMax == [max |-> TRUE, t |-> 0]
\* CacheConfig(), and CacheManager(config) after its construction at time 0
DefaultCacheConfig == [max_entries |-> 10000, default_ttl |-> 3600, cleanup_interval |-> 300]
NewCacheManager == [cache_ |-> << >>, config_ |-> DefaultCacheConfig, last_cleanup_ |-> 0]
NoExport == [entries |-> << >>, of |-> << >>, at |-> 0]
NoCacheCall == [ret |-> [op |-> "none"], exported |-> NoExport]

\* ---- events: the threads that emit, and the values of the records
MaxEmits == 2
MaxOn == 2
Emitters == 1..MaxEmits
EventNames == {"E"}
\* std::nullopt, and values that are no payload
NoResult == 0 - 1
\* an emit call that has not begun
NoEmit == [pc |-> "idle", event |-> "", data |-> NoResult, chain |-> << >>, ran |-> << >>,
           final |-> FALSE, handlers |-> << >>, i |-> 0, to_remove |-> << >>, calls |-> << >>,
           during_wait |-> FALSE]
NoDRet == [op |-> "none"]
\* EventCollector(filter, config) before start()
NoCollector == [is_active_ |-> FALSE, collected_items_ |-> << >>, start_time_ |-> 0, started |-> FALSE,
                max_matches |-> 0, timeout |-> 0, returned |-> << >>]
\* the threads that call the ReconnectionManager
Callers == {"c1", "c2"}
\* the ReconnectionManager after construction: mutex_ free, no call under way,
\* reconnect_thread_ not joinable
NoController == [mutex_ |-> "free", pc |-> [c \in Callers |-> "idle"], joinable |-> FALSE]

\* no wait_for call made
NoWait == [pc |-> "none", result |-> NoResult, event_received |-> FALSE, handler_id |-> "",
           deadline |-> 0, seen |-> << >>]

VARIABLES
    now,                 \* std::chrono::steady_clock::now()
    \* ---- RateLimiter
    rate_limits_,        \* endpoint -> RateLimitInfo (a map: its domain are the keys)
    endpoint_limits_,    \* endpoint -> EndpointLimit
    global_reset_time_,
    ret,                 \* the value the last RateLimiter call returned
    \* ---- RequestQueue
    requests_,           \* queue of endpoints
    rq_running_,
    rq_pc,               \* position of process_requests
    rq_cur,              \* the request process_requests popped
    rq_deadline,         \* end of the wait_for of wait_if_needed
    rq_exempt,           \* the popped request was probed under an earlier policy
    released,            \* the request functions called so far: <<endpoint, time>>
    \* ---- HTTPClient
    request_queue_,      \* queue of Request*: the ids of the requests
    running_,
    requests,            \* id -> the Request allocated by a submission
    future,              \* id -> state of the request's promise
    worker_pc,           \* position of worker_loop
    cur,                 \* the request worker_loop popped (0: none)
    started,             \* the perform_request calls begun so far
    answered,            \* id -> what the transport and the server answered
    sd_pc,               \* position of shutdown()
    \* ---- WebSocketClient::Impl
    transport,           \* the websocketpp connection: "closed", "connecting", "open"
    is_connected_,
    io_pc,               \* thread_ running client_.run(): "none", "run", "joining", "finished"
    \* ---- ReconnectionManager
    session_info_,
    auto_reconnect_enabled_,
    is_reconnecting_,
    current_retry_count_,
    should_stop_,
    rt_pc,               \* position of reconnect_thread_ in exponential_backoff_reconnect
    rt_log,              \* the present reconnect sequence: callbacks called, time waited
    \* ---- ShardManager, one shard
    shard_info_,         \* the shard's ShardInfo
    cs_pc,               \* position of the thread inside connect_shard / reconnect_shard
    connects,            \* number of WebSocketClient::connect calls made
    \* ---- the gateway server and what was observed
    wire,                \* the identity payload the server received and has not answered
    ready,               \* READY or RESUMED arrived on the present transport
    resume_due,          \* session held at the last resumable disconnect
    next_identity,       \* first identity payload transmitted after that disconnect
    nonres_close,        \* code of the last non-resumable close, no attempt made since (0: none)
    attempt_log,         \* what the last attempt_reconnection saw and did
    dropped,             \* the transport dropped with auto-reconnect on, no connect since
    hb,                  \* heartbeat_thread_ and what was received and sent beside it
    rc,                  \* ReconnectionManager: owner of mutex_, its callers, reconnect_thread_
    \* ---- ShardManager, all its shards
    mgr,                 \* the manager's members and the position of its threads
    call,                \* the last get_shard_for_guild call: its arguments and result
    \* ---- CacheManager
    cm,                  \* the manager's members: cache_, config_, last_cleanup_
    cio,                 \* what its last call returned, and the data last exported
    \* ---- EventDispatcher
    handlers_,           \* event name -> vector of EventHandlerInfo
    ons,                 \* number of callables handed to on() so far
    middleware_,         \* vector of the middleware
    em,                  \* thread -> the emit call it runs
    dret,                \* what the last on / off / off_all call did and returned
    coll,                \* the EventCollector
    wt                   \* the wait_for call and its caller

limiterVars == <<rate_limits_, endpoint_limits_, global_reset_time_, ret>>
queueVars == <<requests_, rq_running_, rq_pc, rq_cur, rq_deadline, rq_exempt, released>>
httpVars == <<request_queue_, running_, requests, future, worker_pc, cur, started, answered, sd_pc>>
gatewayVars == <<transport, is_connected_, io_pc, session_info_, auto_reconnect_enabled_,
                 is_reconnecting_, current_retry_count_, should_stop_, rt_pc, rt_log,
                 shard_info_, cs_pc, connects, wire, ready,
                 resume_due, next_identity, nonres_close, attempt_log, dropped, hb,
                 mgr, call, cm, cio, rc>>
eventVars == <<handlers_, ons, middleware_, em, dret, coll, wt>>
vars == <<now, limiterVars, queueVars, httpVars, gatewayVars, eventVars>>

(***************************************************************************)
(* RateLimiter                                                             *)
(***************************************************************************)
\* struct RateLimitInfo as update_limits receives it (`limit` is never read)
RateLimitInfo == [remaining : -1..1, reset_time : Times, global : BOOLEAN]

\* What rate_limits_ keeps of it: the fields that are read back. The stored
\* `global` and `limit` are never read; `global` acts only at the update.
Stored(info) == [remaining |-> info.remaining, reset_time |-> info.reset_time]

\* m[k] = v of an unordered_map
MapPut(m, k, v) == [x \in (DOMAIN m) \cup {k} |-> IF x = k THEN v ELSE m[x]]

\* cleanup_old_requests: drop the timestamps older than now - window from the front
RECURSIVE DropOld(_, _)
DropOld(q, cutoff) ==
    IF q # << >> /\ Head(q) < cutoff THEN DropOld(Tail(q), cutoff) ELSE q

cleanup_old_requests(limits, e, t) ==
    IF e \notin DOMAIN limits THEN limits
    ELSE [limits EXCEPT ![e].request_times = DropOld(@, t - limits[e].window)]

\* can_make_request with the bucket held through its reset instant (<= for <)
CanMakeRequestResultLate(e, t, limits) ==
    IF t < global_reset_time_ THEN FALSE
    ELSE IF /\ e \in DOMAIN rate_limits_
            /\ rate_limits_[e].remaining = 0
            /\ t <= rate_limits_[e].reset_time THEN FALSE
    ELSE IF /\ e \in DOMAIN limits
            /\ Len(limits[e].request_times) >= limits[e].max_requests THEN FALSE
    ELSE TRUE

\* can_make_request with the global window consulted only for endpoints that
\* have a bucket
CanMakeRequestResultBucketFirst(e, t, limits) ==
    IF e \in DOMAIN rate_limits_ /\ t < global_reset_time_ THEN FALSE
    ELSE IF /\ e \in DOMAIN rate_limits_
            /\ rate_limits_[e].remaining = 0
            /\ t < rate_limits_[e].reset_time THEN FALSE
    ELSE IF /\ e \in DOMAIN limits
            /\ Len(limits[e].request_times) >= limits[e].max_requests THEN FALSE
    ELSE TRUE

\* The value can_make_request returns, on the limits left by its cleanup
CanMakeRequestResult(e, t, limits) ==
    IF t < global_reset_time_ THEN FALSE
    ELSE IF /\ e \in DOMAIN rate_limits_
            /\ rate_limits_[e].remaining >= 0
            /\ rate_limits_[e].remaining = 0
            /\ t < rate_limits_[e].reset_time THEN FALSE
    ELSE IF /\ e \in DOMAIN limits
            /\ Len(limits[e].request_times) >= limits[e].max_requests THEN FALSE
    ELSE TRUE

\* get_wait_time, on the limits left by its cleanup. With max_requests <= 0 the
\* code reads front() of an empty queue: the queue's specification feeds
\* max_requests >= 1 only.
GetWaitTime(e, t, limits) ==
    IF t < global_reset_time_ THEN global_reset_time_ - t
    ELSE IF /\ e \in DOMAIN rate_limits_
            /\ rate_limits_[e].remaining = 0
            /\ t < rate_limits_[e].reset_time THEN rate_limits_[e].reset_time - t
    ELSE IF /\ e \in DOMAIN limits
            /\ Len(limits[e].request_times) >= limits[e].max_requests
            /\ Head(limits[e].request_times) + limits[e].window > t
         THEN Head(limits[e].request_times) + limits[e].window - t
    ELSE 0

update_limits(e, info) ==
    /\ rate_limits_' = MapPut(rate_limits_, e, Stored(info))
    /\ global_reset_time_' = IF info.global THEN info.reset_time ELSE global_reset_time_
    /\ ret' = NoRet
    /\ UNCHANGED <<eventVars, gatewayVars, now, endpoint_limits_, queueVars, httpVars>>

can_make_request(e) ==
    /\ LET limits == IF now < global_reset_time_
                        \/ (/\ e \in DOMAIN rate_limits_
                            /\ rate_limits_[e].remaining = 0
                            /\ now < rate_limits_[e].reset_time)
                     THEN endpoint_limits_
                     ELSE cleanup_old_requests(endpoint_limits_, e, now)
       IN /\ endpoint_limits_' = limits
          /\ ret' = [op |-> "can_make_request", endpoint |-> e,
                     result |-> CanMakeRequestResult(e, now, limits)]
    /\ UNCHANGED <<eventVars, gatewayVars, now, rate_limits_, global_reset_time_, queueVars, httpVars>>

set_global_limit(delay) ==
    /\ global_reset_time_' = now + delay
    /\ ret' = NoRet
    /\ UNCHANGED <<eventVars, gatewayVars, now, rate_limits_, endpoint_limits_, queueVars, httpVars>>

set_endpoint_limit(e, max_requests, window) ==
    /\ endpoint_limits_' = MapPut(endpoint_limits_, e,
            [max_requests |-> max_requests, window |-> window, request_times |-> << >>])
    /\ ret' = NoRet
    /\ UNCHANGED <<eventVars, gatewayVars, now, rate_limits_, global_reset_time_, queueVars, httpVars>>

\* the steady clock advances
Tick ==
    /\ now < MaxTime
    /\ now' = now + 1
    /\ ret' = NoRet
    /\ UNCHANGED <<eventVars, gatewayVars, rate_limits_, endpoint_limits_, global_reset_time_, queueVars, httpVars>>

\* The state after construction: time_points are value-initialised to the
\* clock's epoch, the maps and queues are empty, no thread runs yet.
Init ==
    /\ now = 0
    /\ rate_limits_ = << >>
    /\ endpoint_limits_ = << >>
    /\ global_reset_time_ = 0
    /\ ret = NoRet
    /\ requests_ = << >>
    /\ rq_running_ = FALSE
    /\ rq_pc = "none"
    /\ rq_cur = "none"
    /\ rq_deadline = 0
    /\ rq_exempt = FALSE
    /\ released = << >>
    /\ request_queue_ = << >>
    /\ running_ = TRUE
    /\ requests = << >>
    /\ future = << >>
    /\ worker_pc = "loop"
    /\ cur = 0
    /\ started = << >>
    /\ answered = << >>
    /\ sd_pc = "idle"
    /\ transport = "closed"
    /\ is_connected_ = FALSE
    /\ io_pc = "none"
    /\ session_info_ = ClearedSession
    /\ auto_reconnect_enabled_ = TRUE
    /\ is_reconnecting_ = FALSE
    /\ current_retry_count_ = 0
    /\ should_stop_ = FALSE
    /\ rt_pc = "idle"
    /\ rt_log = NoRtLog
    /\ shard_info_ = NewShardInfo
    /\ cs_pc = "idle"
    /\ connects = 0
    /\ wire = NoPayload
    /\ ready = FALSE
    /\ resume_due = NoSession
    /\ next_identity = NoPayload
    /\ nonres_close = 0
    /\ attempt_log = NoAttempt
    /\ dropped = FALSE
    /\ hb = NoHeartbeat
    /\ mgr = NoManager
    /\ call = NoCall
    /\ cm = NewCacheManager
    /\ cio = NoCacheCall
    /\ rc = NoController
    /\ handlers_ = << >>
    /\ ons = 0
    /\ middleware_ = << >>
    /\ em = [t \in Emitters |-> NoEmit]
    /\ dret = NoDRet
    /\ coll = NoCollector
    /\ wt = NoWait

(***************************************************************************)
(* RequestQueue                                                            *)
(***************************************************************************)
\* requests handed to enqueue and not yet run to the end
RqOutstanding == Len(requests_) + Len(released) + (IF rq_cur = "none" THEN 0 ELSE 1)
\* (released lists the calls the current policies are about, see RQCall)

\* The releases since the last set_endpoint_limit of an endpoint are what its
\* policy is about: set_endpoint_limit starts the policy afresh.
ForgetReleases(log, e) == SelectSeq(log, LAMBDA x : x[1] # e)

enqueue(e) ==
    /\ RqOutstanding < MaxSubmitted
    /\ Len(requests_) < MaxQueued
    /\ requests_' = Append(requests_, e)
    /\ UNCHANGED <<eventVars, gatewayVars, now, limiterVars, httpVars, rq_running_, rq_pc, rq_cur, rq_deadline, rq_exempt, released>>

\* start(): launches process_requests
RQStart ==
    /\ ~rq_running_
    /\ rq_running_' = TRUE
    /\ rq_pc' = "wait"
    /\ UNCHANGED <<eventVars, gatewayVars, now, limiterVars, httpVars, requests_, rq_cur, rq_deadline, rq_exempt, released>>

\* process_requests: cv_.wait until a request is queued, then pop it
RQDequeue ==
    /\ rq_pc = "wait" /\ rq_running_ /\ requests_ # << >>
    /\ rq_cur' = Head(requests_)
    /\ requests_' = Tail(requests_)
    /\ rq_pc' = "probe"
    /\ UNCHANGED <<eventVars, gatewayVars, now, limiterVars, httpVars, rq_running_, rq_deadline, rq_exempt, released>>

\* wait_if_needed: get_wait_time, and wait_for(wait_time) if it is positive
RQProbe ==
    /\ rq_pc = "probe"
    /\ LET probed == now >= global_reset_time_
                     /\ ~(/\ rq_cur \in DOMAIN rate_limits_
                          /\ rate_limits_[rq_cur].remaining = 0
                          /\ now < rate_limits_[rq_cur].reset_time)
           limits == IF probed THEN cleanup_old_requests(endpoint_limits_, rq_cur, now)
                     ELSE endpoint_limits_
           wait_time == GetWaitTime(rq_cur, now, limits)
       IN /\ endpoint_limits_' = limits
          /\ rq_deadline' = now + wait_time
          /\ rq_pc' = IF wait_time > 0 THEN "limit" ELSE "call"
    /\ ret' = NoRet
    /\ rq_exempt' = FALSE
    /\ UNCHANGED <<eventVars, gatewayVars, now, rate_limits_, global_reset_time_, httpVars, requests_, rq_running_, rq_cur, released>>

\* cv_.wait_for(lock, wait_time) returns: at its timeout, or earlier by a
\* spurious wakeup (it has no predicate)
RQWake ==
    /\ rq_pc = "limit"
    /\ \/ now >= rq_deadline
       \/ now < rq_deadline
    /\ rq_pc' = "call"
    /\ UNCHANGED <<eventVars, gatewayVars, now, limiterVars, httpVars, requests_, rq_running_, rq_cur, rq_deadline, rq_exempt, released>>

\* request.function()
RQCall ==
    /\ rq_pc = "call"
    /\ released' = IF rq_exempt THEN released ELSE Append(released, <<rq_cur, now>>)
    /\ rq_cur' = "none"
    /\ rq_exempt' = FALSE
    /\ rq_pc' = "wait"
    /\ UNCHANGED <<eventVars, gatewayVars, now, limiterVars, httpVars, requests_, rq_running_, rq_deadline>>

\* set_endpoint_limit as the queue's specification sees it
QueueSetEndpointLimit(e, m, w) ==
    /\ endpoint_limits_' = MapPut(endpoint_limits_, e,
            [max_requests |-> m, window |-> w, request_times |-> << >>])
    /\ released' = ForgetReleases(released, e)
    /\ rq_exempt' = (rq_exempt \/ (rq_cur = e /\ rq_pc \in {"limit", "call"}))
    /\ ret' = NoRet
    /\ UNCHANGED <<eventVars, gatewayVars, now, rate_limits_, global_reset_time_, httpVars, requests_, rq_running_, rq_pc, rq_cur, rq_deadline>>

NextLimiter ==
    \/ \E e \in Routes, info \in RateLimitInfo : update_limits(e, info)
    \/ \E e \in Routes : can_make_request(e)
    \/ \E d \in 0..(MaxTime + 1 - now) : set_global_limit(d)
    \/ \E e \in Routes, m \in 0..MaxPolicy, w \in 1..MaxTime : set_endpoint_limit(e, m, w)
    \/ Tick

SpecLimiter == Init /\ [][NextLimiter]_vars

\* The RequestQueue with its RateLimiter: the limiter's inputs are the ones a
\* response that exhausted a bucket gives.
QueueInfos == {i \in RateLimitInfo : i.remaining = 0 /\ ~i.global}

\* one endpoint is enough for a policy to be exceeded
QueueRoutes == {"r1"}

NextQueue ==
    \/ \E e \in QueueRoutes : enqueue(e)
    \/ RQStart
    \/ RQDequeue
    \/ RQProbe
    \/ RQWake
    \/ RQCall
    \/ \E e \in QueueRoutes, info \in QueueInfos : update_limits(e, info)
    \/ \E e \in QueueRoutes, m \in 1..MaxPolicy, w \in 1..MaxTime : QueueSetEndpointLimit(e, m, w)
    \/ \E e \in QueueRoutes : can_make_request(e)
    \/ Tick

SpecQueue == Init /\ [][NextQueue]_vars

(***************************************************************************)
(* HTTPClient: the request pipeline                                        *)
(***************************************************************************)
PendingFuture == [state |-> "pending"]
\* promise.set_value(json_response)
Value(kind) == [state |-> "value", kind |-> kind]
\* promise.set_exception(...): the exception's type and what() text
Exception(type, what) == [state |-> "exception", type |-> type, what |-> what]

ShutdownError == Exception("std::runtime_error", "HTTP client shutting down")

\* What the transport and the server can answer to one request
Outcomes == {"curl_error", "200_json", "200_empty", "200_malformed", "404", "429"}

\* perform_request and the rest of worker_loop's try block: how the promise of
\* the request is completed for each answer
Completion(outcome) ==
    CASE outcome = "curl_error"    -> Exception("std::runtime_error", "CURL error")
      [] outcome = "200_json"      -> Value("json")
      [] outcome = "200_empty"     -> Value("null")
      [] outcome = "200_malformed" -> Exception("nlohmann::json::parse_error", "parse error")
      [] outcome = "404"           -> Exception("std::runtime_error", "HTTP error 404")
      [] outcome = "429"           -> Exception("std::runtime_error", "HTTP error 429")

\* the endpoint's bucket is exhausted and its reset instant is still ahead
BucketExhausted(e, t) ==
    /\ e \in DOMAIN rate_limits_
    /\ rate_limits_[e].remaining = 0
    /\ t < rate_limits_[e].reset_time

\* the worker holds queue_mutex_
WorkerHoldsMutex == worker_pc \in {"locked", "entering_wait"}

\* queue_cv_.notify_one() / notify_all(): wakes the worker if it is blocked in wait
Notified(pc) == IF pc = "blocked" THEN "pred" ELSE pc

\* request_queue_.push putting the new request ahead of the waiting ones
PushFront(q, id) == <<id>> \o q

\* request_queue_.push(request): the new request goes behind the waiting ones
Push(q, id) == Append(q, id)

\* get / post / put / patch / delete_: allocate the Request, push it under the
\* mutex, notify_one, return the future
Submit(method, url) ==
    /\ Cardinality(DOMAIN requests) < MaxSubmitted
    /\ ~WorkerHoldsMutex
    /\ LET id == Cardinality(DOMAIN requests) + 1
       IN /\ requests' = MapPut(requests, id, [method |-> method, url |-> url])
          /\ future' = MapPut(future, id, PendingFuture)
          /\ request_queue_' = Push(request_queue_, id)
    /\ worker_pc' = Notified(worker_pc)
    /\ UNCHANGED <<eventVars, gatewayVars, now, limiterVars, queueVars, running_, cur, started, answered, sd_pc>>

get(url) == Submit("GET", url)
post(url) == Submit("POST", url)
put(url) == Submit("PUT", url)
patch(url) == Submit("PATCH", url)
delete_(url) == Submit("DELETE", url)

\* worker_loop: while (running_)
WorkerLoop ==
    /\ worker_pc = "loop"
    /\ worker_pc' = IF running_ THEN "pred" ELSE "exited"
    /\ UNCHANGED <<eventVars, gatewayVars, now, limiterVars, queueVars, request_queue_, running_, requests, future, cur, started, answered, sd_pc>>

\* worker_loop: lock the mutex and evaluate the predicate of queue_cv_.wait
WorkerPred ==
    /\ worker_pc = "pred"
    /\ worker_pc' = IF request_queue_ # << >> \/ ~running_ THEN "locked" ELSE "entering_wait"
    /\ UNCHANGED <<eventVars, gatewayVars, now, limiterVars, queueVars, request_queue_, running_, requests, future, cur, started, answered, sd_pc>>

\* worker_loop: the predicate was false, wait() releases the mutex and blocks
WorkerBlock ==
    /\ worker_pc = "entering_wait"
    /\ worker_pc' = "blocked"
    /\ UNCHANGED <<eventVars, gatewayVars, now, limiterVars, queueVars, request_queue_, running_, requests, future, cur, started, answered, sd_pc>>

\* a condition variable may wake without a notification: the predicate is
\* evaluated again
WorkerSpuriousWake ==
    /\ worker_pc = "blocked"
    /\ worker_pc' = "pred"
    /\ UNCHANGED <<eventVars, gatewayVars, now, limiterVars, queueVars, request_queue_, running_, requests, future, cur, started, answered, sd_pc>>

\* The request worker_loop takes from the queue
Front(q) == Head(q)
Pop(q) == Tail(q)

\* worker_loop: if (!running_) break; otherwise pop the front request, unlock,
\* and begin perform_request
WorkerDequeue ==
    /\ worker_pc = "locked"
    /\ IF ~running_
       THEN /\ worker_pc' = "exited"
            /\ UNCHANGED <<request_queue_, cur, started>>
       ELSE /\ cur' = Front(request_queue_)
            /\ request_queue_' = Pop(request_queue_)
            /\ started' = Append(started,
                    [id |-> Front(request_queue_), at |-> now,
                     exhausted |-> BucketExhausted(requests[Front(request_queue_)].url, now)])
            /\ worker_pc' = "transport"
    /\ UNCHANGED <<eventVars, gatewayVars, now, limiterVars, queueVars, running_, requests, future, answered, sd_pc>>

\* worker_loop: perform_request returns or throws, the promise is completed,
\* the request is deleted
WorkerPerform(outcome) ==
    /\ worker_pc = "transport"
    /\ future' = [future EXCEPT ![cur] = Completion(outcome)]
    /\ answered' = MapPut(answered, cur, outcome)
    /\ cur' = 0
    /\ worker_pc' = "loop"
    /\ UNCHANGED <<eventVars, gatewayVars, now, limiterVars, queueVars, request_queue_, running_, requests, started, sd_pc>>

\* shutdown(): running_ = false (an atomic store, made without the mutex)
ShutdownStop ==
    /\ sd_pc \in {"idle", "returned"}
    /\ running_' = FALSE
    /\ sd_pc' = "notify"
    /\ UNCHANGED <<eventVars, gatewayVars, now, limiterVars, queueVars, request_queue_, requests, future, worker_pc, cur, started, answered>>

\* shutdown(): queue_cv_.notify_all()
ShutdownNotify ==
    /\ sd_pc = "notify"
    /\ worker_pc' = Notified(worker_pc)
    /\ sd_pc' = "join"
    /\ UNCHANGED <<eventVars, gatewayVars, now, limiterVars, queueVars, request_queue_, running_, requests, future, cur, started, answered>>

\* shutdown(): join the worker if it is joinable, then fail what is still queued
ShutdownDrain ==
    /\ sd_pc = "join"
    /\ worker_pc \in {"exited", "joined"}
    /\ worker_pc' = "joined"
    /\ future' = [id \in DOMAIN future |->
                    IF \E i \in 1..Len(request_queue_) : request_queue_[i] = id
                    THEN ShutdownError ELSE future[id]]
    /\ request_queue_' = << >>
    /\ sd_pc' = "returned"
    /\ UNCHANGED <<eventVars, gatewayVars, now, limiterVars, queueVars, running_, requests, cur, started, answered>>

PipeRoutes == {"r1"}

NextPipeline ==
    \/ \E u \in PipeRoutes : get(u)
    \/ \E u \in PipeRoutes : post(u)
    \/ \E u \in PipeRoutes : put(u)
    \/ \E u \in PipeRoutes : patch(u)
    \/ \E u \in PipeRoutes : delete_(u)
    \/ WorkerLoop
    \/ WorkerPred
    \/ WorkerBlock
    \/ WorkerSpuriousWake
    \/ WorkerDequeue
    \/ \E o \in Outcomes : WorkerPerform(o)
    \/ ShutdownStop
    \/ ShutdownNotify
    \/ ShutdownDrain

SpecPipeline == Init /\ [][NextPipeline]_vars

\* The pipeline of a running client beside a RateLimiter that knows exhausted
\* buckets, while time passes
NextPipelineLimits ==
    \/ \E u \in PipeRoutes : get(u)
    \/ \E u \in PipeRoutes : post(u)
    \/ WorkerLoop
    \/ WorkerPred
    \/ WorkerBlock
    \/ WorkerSpuriousWake
    \/ WorkerDequeue
    \/ \E o \in Outcomes : WorkerPerform(o)
    \/ \E e \in PipeRoutes, info \in QueueInfos : update_limits(e, info)
    \/ Tick

SpecPipelineLimits == Init /\ [][NextPipelineLimits]_vars

(***************************************************************************)
(* Properties of the RateLimiter and the RequestQueue                      *)
(***************************************************************************)
\* the local policy of e has no free slot
Saturated(e) ==
    /\ e \in DOMAIN endpoint_limits_
    /\ Len(endpoint_limits_[e].request_times) >= endpoint_limits_[e].max_requests

\* ret is the result of a can_make_request(e) made in this state
Probed(e) == ret.op = "can_make_request" /\ ret.endpoint = e

\* C5: once update_limits stored remaining = 0 and reset_time = t for an
\* endpoint (and no later update replaced it), can_make_request of it returns
\* false before t, and returns true at t or later unless the global window is
\* active or the local policy is saturated.
C5_ExhaustedBucketHeldUntilReset ==
    \A e \in Routes :
        (Probed(e) /\ e \in DOMAIN rate_limits_ /\ rate_limits_[e].remaining = 0) =>
            /\ now < rate_limits_[e].reset_time => ret.result = FALSE
            /\ (/\ now >= rate_limits_[e].reset_time
                /\ now >= global_reset_time_
                /\ ~Saturated(e)) => ret.result = TRUE

\* a probe made exactly at the reset instant, after time has passed, let through
C5_Witness ==
    \E e \in Routes :
        /\ Probed(e) /\ e \in DOMAIN rate_limits_
        /\ rate_limits_[e].remaining = 0
        /\ now > 0 /\ rate_limits_[e].reset_time = now
        /\ ret.result = TRUE

\* C6: while now is before the global reset, can_make_request returns false
\* for every endpoint, whatever its bucket and its local policy are.
C6_GlobalWindowOverrides ==
    \A e \in Routes : (Probed(e) /\ now < global_reset_time_) => ret.result = FALSE

\* an endpoint with no bucket and no policy of its own, refused because an
\* update of another endpoint opened the global window
C6_Witness ==
    \E e \in Routes :
        /\ Probed(e) /\ now < global_reset_time_
        /\ e \notin DOMAIN rate_limits_ /\ e \notin DOMAIN endpoint_limits_
        /\ rate_limits_ # << >>
        /\ ret.result = FALSE

\* number of calls of e's request function in the interval [t, t + w)
ReleasedIn(e, t, w) ==
    Cardinality({j \in 1..Len(released) :
                    released[j][1] = e /\ released[j][2] >= t /\ released[j][2] < t + w})

\* C10: after set_endpoint_limit(e, max_requests, window), no more than
\* max_requests requests of e are released within any interval of length window.
C10_PolicyBoundsReleases ==
    \A e \in DOMAIN endpoint_limits_ : \A t \in 0..MaxTime :
        ReleasedIn(e, t, endpoint_limits_[e].window) <= endpoint_limits_[e].max_requests

(***************************************************************************)
(* Properties of the HTTP request pipeline                                 *)
(***************************************************************************)
\* C4: a request for a route whose bucket is known to be exhausted (remaining
\* = 0, reset instant t) is not transmitted before t: no perform_request
\* begins while the request's bucket is exhausted.
C4_HeldUntilReset ==
    \A k \in 1..Len(started) : ~started[k].exhausted

\* C7: the requests are started in the order of their insertion into the
\* queue (ids count the insertions), none is skipped, and when a request is
\* started every request started before it has its future completed.
C7_FifoOneInFlight ==
    /\ \A k \in 1..Len(started) : started[k].id = k
    /\ \A k \in 1..(Len(started) - 1) : future[started[k].id].state # "pending"

\* two requests submitted through different operations, both started, the
\* second one while the first one's future is complete
C7_Witness ==
    /\ Len(started) = 2
    /\ requests[1].method # requests[2].method
    /\ cur = 2
    /\ future[1].state # "pending" /\ future[2].state = "pending"

\* C8: no future stays pending: once shutdown() has returned and the worker is
\* gone (nothing of the pipeline is left to run), every future handed out is
\* completed, those of requests submitted after shutdown() included.
C8_NoFutureLeftPending ==
    (sd_pc = "returned" /\ worker_pc = "joined") =>
        \A id \in DOMAIN future : future[id].state # "pending"

\* C9: a request answered with status 429 has its future failed with a
\* Rate-Limited error (not the generic HTTP error of the other statuses), and
\* the rate limiter holds a backoff for its route or for all routes.
C9_RateLimitedIsTyped ==
    \A id \in DOMAIN answered :
        answered[id] = "429" =>
            /\ future[id].state = "exception"
            /\ future[id].type = "RateLimitException"
            /\ (requests[id].url \in DOMAIN rate_limits_ \/ global_reset_time_ > 0)

(***************************************************************************)
(* Gateway: one shard of the ShardManager, its WebSocketClient and the     *)
(* client's ReconnectionManager                                            *)
(***************************************************************************)
wsVars == <<transport, is_connected_, io_pc>>
rmVars == <<session_info_, auto_reconnect_enabled_, is_reconnecting_, current_retry_count_, should_stop_, rt_pc, rt_log>>
smVars == <<shard_info_, cs_pc, connects>>
obsVars == <<wire, ready, resume_due, next_identity, nonres_close, attempt_log, dropped>>
restVars == <<now, limiterVars, queueVars, httpVars, eventVars, hb, mgr, call, cm, cio, rc>>

\* std::atomic<int> max_retries_{5}
max_retries_ == 5
\* std::atomic<std::chrono::milliseconds> base_delay_{1000}, max_delay_{30000}
base_delay_ == 1000
max_delay_ == 30000

\* WebSocketClient::Impl::session_id_: default-constructed, and no statement of
\* the program assigns it
session_id_ == ""

\* op 2
Identify == [op |-> "IDENTIFY", session_id |-> "", seq |-> 0]
\* op 6
Resume(sid, seq) == [op |-> "RESUME", session_id |-> sid, seq |-> seq]

\* WebSocketClient::Impl::resume(): the payloads it can hand to send().
\* last_sequence_ is read without ever having been written.
ClientResume ==
    IF session_id_ = "" THEN {Identify}
    ELSE {Resume(session_id_, s) : s \in 0..MaxSeq}

\* ShardManager::connect_shard: "Send identify or resume"
ShardIdentity ==
    IF shard_info_.is_resumable /\ shard_info_.session_id # ""
    THEN Resume(shard_info_.session_id, shard_info_.sequence_number)
    ELSE Identify

\* ReconnectionManager::is_resumable_close_code
is_resumable_close_code(close_code) ==
    IF close_code \in {1000, 1001, 1006, 1009, 1011, 1012, 1013, 1014} THEN TRUE
    ELSE IF close_code \in (4000..4005) \cup (4007..4014) THEN FALSE
    ELSE close_code >= 1000 /\ close_code < 2000

\* ReconnectionManager::should_resume
should_resume == session_info_.can_resume /\ session_info_.session_id # ""

\* the session the shard holds, when it holds a session id and a last sequence
HeldSession ==
    IF shard_info_.session_id # "" /\ shard_info_.sequence_number > 0
    THEN [session_id |-> shard_info_.session_id, seq |-> shard_info_.sequence_number]
    ELSE NoSession

\* WebSocketClient::Impl::send: transmits only while is_connected_
Transmit(p) ==
    IF is_connected_
    THEN /\ wire' = p
         /\ next_identity' = IF resume_due # NoSession /\ next_identity = NoPayload
                             THEN p ELSE next_identity
    ELSE UNCHANGED <<wire, next_identity>>

\* ReconnectionManager::start_reconnect_sequence (its join returns once the
\* previous reconnect thread has ended)
start_reconnect_sequence ==
    IF is_reconnecting_
    THEN UNCHANGED <<is_reconnecting_, current_retry_count_, should_stop_, rt_pc, rt_log>>
    ELSE /\ rt_pc = "idle"
         /\ is_reconnecting_' = TRUE
         /\ current_retry_count_' = 0
         /\ should_stop_' = FALSE
         /\ rt_pc' = "loop"
         /\ rt_log' = NoRtLog

\* ReconnectionManager::handle_disconnect
handle_disconnect(close_code) ==
    /\ UNCHANGED auto_reconnect_enabled_
    /\ IF ~auto_reconnect_enabled_
       THEN UNCHANGED <<session_info_, is_reconnecting_, current_retry_count_, should_stop_, rt_pc, rt_log>>
       ELSE /\ session_info_' =
                  IF is_resumable_close_code(close_code) /\ session_info_.can_resume
                  THEN [session_info_ EXCEPT !.can_resume = TRUE]
                  ELSE ClearedSession
            /\ start_reconnect_sequence

\* ReconnectionManager::handle_invalid_session
handle_invalid_session(can_resume) ==
    /\ UNCHANGED auto_reconnect_enabled_
    /\ session_info_' = IF can_resume
                        THEN [session_info_ EXCEPT !.can_resume = TRUE]
                        ELSE ClearedSession
    /\ start_reconnect_sequence

\* what a call of handle_disconnect leaves to be observed: the session that
\* is due to be resumed, if the code is resumable and a session is held
ObserveDisconnect(close_code) ==
    /\ resume_due' = IF auto_reconnect_enabled_ /\ is_resumable_close_code(close_code)
                     THEN HeldSession ELSE NoSession
    /\ next_identity' = NoPayload

\* WebSocketClient::Impl::connect: client_.connect(con) and thread_ =
\* std::thread(run). thread_ is not joinable here: the assignment to a
\* joinable std::thread terminates the program.
Connect ==
    /\ io_pc = "none"
    /\ connects < MaxConnects
    /\ transport' = "connecting"
    /\ io_pc' = "run"
    /\ connects' = connects + 1
    /\ dropped' = FALSE
    /\ UNCHANGED is_connected_

\* ShardManager::start: connect_shard(i) up to the return of shard->connect(url)
ConnectShard ==
    /\ cs_pc = "idle"
    /\ connects = 0
    /\ Connect
    /\ shard_info_' = [shard_info_ EXCEPT !.is_connected = TRUE]
    /\ cs_pc' = "send"
    /\ UNCHANGED <<restVars, rmVars, wire, ready, resume_due, next_identity, nonres_close, attempt_log>>

\* connect_shard: resume_shard or identify_shard, right after connect returned
ConnectShardSend ==
    /\ cs_pc = "send"
    /\ Transmit(ShardIdentity)
    /\ cs_pc' = "idle"
    /\ UNCHANGED <<restVars, wsVars, rmVars, shard_info_, connects, ready, resume_due, nonres_close, attempt_log, dropped>>

\* ShardManager::reconnect_shard(id, resume): lock mutex_, disconnect_shard:
\* WebSocketClient::disconnect asks for the close if is_connected_ and joins thread_
ReconnectShard(resume) ==
    /\ cs_pc = "idle"
    /\ connects > 0
    /\ connects < MaxConnects
    /\ cs_pc' = IF resume THEN "join_resume" ELSE "join_identify"
    /\ UNCHANGED <<restVars, wsVars, rmVars, shard_info_, connects, obsVars>>

\* reconnect_shard: thread_.join() returned; the session is kept for a resume
\* of a resumable shard and dropped otherwise
ReconnectShardJoined ==
    /\ cs_pc \in {"join_resume", "join_identify"}
    /\ io_pc \in {"none", "finished"}
    /\ io_pc' = "none"
    /\ shard_info_' =
          IF cs_pc = "join_resume" /\ shard_info_.is_resumable
          THEN [shard_info_ EXCEPT !.is_connected = FALSE]
          ELSE [shard_info_ EXCEPT !.is_connected = FALSE, !.session_id = "", !.sequence_number = 0]
    /\ cs_pc' = "relock"
    /\ UNCHANGED <<restVars, transport, is_connected_, rmVars, connects, obsVars>>

\* reconnect_shard -> connect_shard -> initialize_shard locks mutex_, which
\* this thread holds: the behaviour is undefined. One outcome is that the
\* thread blocks for ever,
ReconnectShardDeadlock ==
    /\ cs_pc = "relock"
    /\ cs_pc' = "deadlocked"
    /\ UNCHANGED <<restVars, wsVars, rmVars, shard_info_, connects, obsVars>>

\* the other that the lock is passed and connect_shard goes on to connect
ReconnectShardProceed ==
    /\ cs_pc = "relock"
    /\ Connect
    /\ shard_info_' = [shard_info_ EXCEPT !.is_connected = TRUE]
    /\ cs_pc' = "send"
    /\ UNCHANGED <<restVars, rmVars, wire, ready, resume_due, next_identity, nonres_close, attempt_log>>

\* open handler: is_connected_ = true, handle_connection_restored (which
\* joins the reconnect thread)
TransportOpen ==
    /\ transport = "connecting"
    /\ io_pc = "run"
    /\ transport' = "open"
    /\ is_connected_' = TRUE
    /\ is_reconnecting_' = FALSE
    /\ current_retry_count_' = 0
    /\ should_stop_' = TRUE
    /\ io_pc' = IF rt_pc = "idle" THEN "run" ELSE "joining"
    /\ wire' = NoPayload
    /\ ready' = FALSE
    /\ nonres_close' = 0
    /\ UNCHANGED <<restVars, session_info_, auto_reconnect_enabled_, rt_pc, rt_log, smVars, resume_due, next_identity, attempt_log, dropped>>

\* handle_connection_restored: reconnect_thread_.join() returns
IoJoined ==
    /\ io_pc = "joining"
    /\ rt_pc = "idle"
    /\ io_pc' = "run"
    /\ UNCHANGED <<restVars, transport, is_connected_, rmVars, smVars, obsVars>>

\* close handler: is_connected_ = false, handle_disconnect(close_code, reason);
\* client_.run() returns
TransportClose(close_code) ==
    /\ transport = "open"
    /\ io_pc = "run"
    /\ transport' = "closed"
    /\ is_connected_' = FALSE
    /\ io_pc' = "finished"
    /\ handle_disconnect(close_code)
    /\ ObserveDisconnect(close_code)
    /\ nonres_close' = IF close_code \in {4004} \cup (4010..4014) THEN close_code ELSE 0
    /\ dropped' = auto_reconnect_enabled_
    /\ wire' = NoPayload
    /\ ready' = FALSE
    /\ UNCHANGED <<restVars, smVars, attempt_log>>

\* message handler, op 0 READY: handle_shard_event stores s, handle_shard_ready
\* stores the session id and sets the sequence back to 0
ServerReady(sid) ==
    /\ transport = "open"
    /\ io_pc = "run"
    /\ wire.op = "IDENTIFY"
    /\ shard_info_' = [shard_info_ EXCEPT !.session_id = sid, !.is_resumable = TRUE, !.sequence_number = 0]
    /\ wire' = NoPayload
    /\ ready' = TRUE
    /\ resume_due' = NoSession
    /\ next_identity' = NoPayload
    /\ UNCHANGED <<restVars, wsVars, rmVars, cs_pc, connects, nonres_close, attempt_log, dropped>>

\* message handler, op 0 RESUMED: handle_shard_event stores s, handle_shard_resume
ServerResumed ==
    /\ transport = "open"
    /\ io_pc = "run"
    /\ wire.op = "RESUME"
    /\ shard_info_' = [shard_info_ EXCEPT !.is_resumable = TRUE, !.sequence_number = wire.seq]
    /\ wire' = NoPayload
    /\ ready' = TRUE
    /\ resume_due' = NoSession
    /\ next_identity' = NoPayload
    /\ UNCHANGED <<restVars, wsVars, rmVars, cs_pc, connects, nonres_close, attempt_log, dropped>>

\* message handler, op 0 with the next sequence number: handle_shard_event
ServerDispatch ==
    /\ transport = "open"
    /\ io_pc = "run"
    /\ ready
    /\ shard_info_.sequence_number < MaxSeq
    /\ shard_info_' = [shard_info_ EXCEPT !.sequence_number = @ + 1]
    /\ resume_due' = IF resume_due = NoSession THEN NoSession
                     ELSE [resume_due EXCEPT !.seq = shard_info_.sequence_number + 1]
    /\ UNCHANGED <<restVars, wsVars, rmVars, cs_pc, connects, wire, ready, next_identity, nonres_close, attempt_log, dropped>>

\* message handler, op 9 INVALID_SESSION with d = can_resume
ServerInvalidSession(can_resume) ==
    /\ transport = "open"
    /\ io_pc = "run"
    /\ handle_invalid_session(can_resume)
    /\ ready' = FALSE
    /\ wire' = NoPayload
    /\ nonres_close' = 0
    /\ resume_due' = NoSession
    /\ next_identity' = NoPayload
    /\ UNCHANGED <<restVars, wsVars, smVars, attempt_log, dropped>>

\* message handler, op 7 RECONNECT: handle_disconnect(1000, ...)
ServerReconnect ==
    /\ transport = "open"
    /\ io_pc = "run"
    /\ handle_disconnect(1000)
    /\ ObserveDisconnect(1000)
    /\ UNCHANGED <<restVars, wsVars, smVars, wire, ready, nonres_close, attempt_log, dropped>>

\* exponential_backoff_reconnect: the while condition; past the loop,
\* is_reconnecting_ = false
RtLoop ==
    /\ rt_pc = "loop"
    /\ IF ~should_stop_ /\ current_retry_count_ < max_retries_
       THEN rt_pc' = "wait" /\ UNCHANGED is_reconnecting_
       ELSE rt_pc' = "idle" /\ is_reconnecting_' = FALSE
    /\ UNCHANGED <<restVars, wsVars, session_info_, auto_reconnect_enabled_, current_retry_count_, should_stop_, rt_log, smVars, obsVars>>

\* std::pow(2, attempt) for the attempts of a sequence
RECURSIVE Pow2(_)
Pow2(n) == IF n <= 0 THEN 1 ELSE 2 * Pow2(n - 1)

\* values drawn from uniform_real_distribution(0.8, 1.2), in thousandths: the
\* least and the greatest
Jitters == {800, 1199}

\* ReconnectionManager::calculate_backoff_delay, in milliseconds: the product
\* cut to a whole number, and the smaller of it and max_delay_
calculate_backoff_delay(attempt, jitter) ==
    LET delay == (base_delay_ * Pow2(attempt) * jitter) \div 1000
    IN  IF delay < max_delay_ THEN delay ELSE max_delay_

\* delay = calculate_backoff_delay(current_retry_count_), then
\* cv_.wait_for(lock, delay, should_stop_): returns true, and the function
\* returns, when should_stop_ is set; returns false at the end of the delay
RtWait ==
    /\ rt_pc = "wait"
    /\ rt_pc' = IF should_stop_ THEN "idle" ELSE "check"
    /\ IF should_stop_ THEN UNCHANGED rt_log
       ELSE \E jitter \in Jitters :
              LET delay == calculate_backoff_delay(current_retry_count_, jitter)
              IN  rt_log' = [rt_log EXCEPT !.waited = @ + delay]
    /\ UNCHANGED <<restVars, wsVars, session_info_, auto_reconnect_enabled_, is_reconnecting_, current_retry_count_, should_stop_, smVars, obsVars>>

\* if (should_stop_.load()) break;
RtCheck ==
    /\ rt_pc = "check"
    /\ IF should_stop_
       THEN rt_pc' = "idle" /\ is_reconnecting_' = FALSE
       ELSE rt_pc' = "attempt" /\ UNCHANGED is_reconnecting_
    /\ UNCHANGED <<restVars, wsVars, session_info_, auto_reconnect_enabled_, current_retry_count_, should_stop_, rt_log, smVars, obsVars>>

\* attempt_reconnection through the callbacks of WebSocketClient::Impl
\* (reconnect_callback_(should_resume), then resume_callback_ when resuming:
\* the same payload once more), and current_retry_count_++
RtAttempt ==
    /\ rt_pc = "attempt"
    /\ \E p \in (IF should_resume THEN ClientResume ELSE {Identify}) :
          /\ Transmit(p)
          /\ attempt_log' = [after |-> nonres_close, session |-> session_info_,
                             built |-> p, sent |-> is_connected_]
    /\ rt_log' = [rt_log EXCEPT
                     !.told_owner = @ \cup (IF should_resume
                                            THEN {"reconnect_callback_", "resume_callback_"}
                                            ELSE {"reconnect_callback_"}),
                     !.before = [attempt |-> current_retry_count_, waited |-> rt_log.waited],
                     !.waited = 0]
    /\ nonres_close' = 0
    /\ current_retry_count_' = current_retry_count_ + 1
    /\ rt_pc' = "sleep"
    /\ UNCHANGED <<restVars, wsVars, session_info_, auto_reconnect_enabled_, is_reconnecting_, should_stop_, smVars, ready, resume_due, dropped>>

\* std::this_thread::sleep_for(1000 ms)
RtSleep ==
    /\ rt_pc = "sleep"
    /\ rt_pc' = "loop"
    /\ rt_log' = [rt_log EXCEPT !.waited = @ + 1000]
    /\ UNCHANGED <<restVars, wsVars, session_info_, auto_reconnect_enabled_, is_reconnecting_, current_retry_count_, should_stop_, smVars, obsVars>>

\* WebSocketClient::enable_auto_reconnect / ShardManager::set_auto_reconnect
enable_auto_reconnect(enabled) ==
    /\ enabled # auto_reconnect_enabled_
    /\ auto_reconnect_enabled_' = enabled
    /\ dropped' = (dropped /\ enabled)
    /\ UNCHANGED <<restVars, wsVars, session_info_, is_reconnecting_, current_retry_count_, should_stop_, rt_pc, rt_log, smVars, wire, ready, resume_due, next_identity, nonres_close, attempt_log>>

NextGateway ==
    \/ ConnectShard
    \/ ConnectShardSend
    \/ \E resume \in BOOLEAN : ReconnectShard(resume)
    \/ ReconnectShardJoined
    \/ ReconnectShardDeadlock
    \/ ReconnectShardProceed
    \/ TransportOpen
    \/ IoJoined
    \/ \E close_code \in CloseCodes : TransportClose(close_code)
    \/ \E sid \in SessionIds : ServerReady(sid)
    \/ ServerResumed
    \/ ServerDispatch
    \/ \E can_resume \in BOOLEAN : ServerInvalidSession(can_resume)
    \/ ServerReconnect
    \/ RtLoop
    \/ RtWait
    \/ RtCheck
    \/ RtAttempt
    \/ RtSleep
    \/ \E enabled \in BOOLEAN : enable_auto_reconnect(enabled)

SpecGateway == Init /\ [][NextGateway]_vars

\* ReconnectionManager::stop_reconnecting, called on the user's thread through
\* WebSocketClient::stop_reconnecting: should_stop_ = true and
\* cv_.notify_all(), both without the mutex (the reconnect thread finds
\* should_stop_ set at its next test, or at the end of its wait_for)
stop_reconnecting ==
    /\ cs_pc = "idle"
    /\ connects > 0
    /\ should_stop_' = TRUE
    /\ cs_pc' = "stop_join"
    /\ UNCHANGED <<restVars, wsVars, session_info_, auto_reconnect_enabled_, is_reconnecting_, current_retry_count_, rt_pc, rt_log, shard_info_, connects, obsVars>>

\* stop_reconnecting: reconnect_thread_.join() returns (or the thread was not
\* joinable), and the call returns
StopReconnectingJoined ==
    /\ cs_pc = "stop_join"
    /\ rt_pc = "idle"
    /\ cs_pc' = "stopped"
    /\ UNCHANGED <<restVars, wsVars, rmVars, shard_info_, connects, obsVars>>

\* a connection whose user stops the reconnecting
NextStop ==
    \/ ConnectShard
    \/ ConnectShardSend
    \/ TransportOpen
    \/ \E close_code \in CloseCodes : TransportClose(close_code)
    \/ \E sid \in SessionIds : ServerReady(sid)
    \/ \E can_resume \in BOOLEAN : ServerInvalidSession(can_resume)
    \/ ServerReconnect
    \/ RtLoop
    \/ RtWait
    \/ RtCheck
    \/ RtAttempt
    \/ RtSleep
    \/ stop_reconnecting
    \/ StopReconnectingJoined

SpecStop == Init /\ [][NextStop]_vars

(***************************************************************************)
(* ReconnectionManager with its mutex_, called from several threads        *)
(***************************************************************************)
rcRest == <<now, limiterVars, queueVars, httpVars, eventVars, hb, mgr, call, cm, cio,
            wsVars, smVars, obsVars, auto_reconnect_enabled_, rt_log>>

\* handle_disconnect: lock_guard on mutex_, the session is settled, then
\* start_reconnect_sequence under the lock: it returns if is_reconnecting_,
\* else sets the three atomics and comes to join reconnect_thread_
RcHandleDisconnect(c, close_code) ==
    /\ rc.pc[c] = "idle"
    /\ auto_reconnect_enabled_
    /\ rc.mutex_ = "free"
    /\ session_info_' =
          IF is_resumable_close_code(close_code) /\ session_info_.can_resume
          THEN [session_info_ EXCEPT !.can_resume = TRUE]
          ELSE ClearedSession
    /\ IF is_reconnecting_
       THEN UNCHANGED <<is_reconnecting_, current_retry_count_, should_stop_, rc>>
       ELSE /\ is_reconnecting_' = TRUE
            /\ current_retry_count_' = 0
            /\ should_stop_' = FALSE
            /\ rc' = [rc EXCEPT !.mutex_ = c, !.pc[c] = "hd_join"]
    /\ UNCHANGED <<rcRest, rt_pc>>

\* handle_disconnect: the join has returned (or the thread was not joinable),
\* the new thread is started, the call returns and its lock_guard unlocks
RcHandleDisconnectJoined(c) ==
    /\ rc.pc[c] = "hd_join"
    /\ rt_pc = "idle"
    /\ rt_pc' = "loop"
    /\ rc' = [rc EXCEPT !.mutex_ = "free", !.pc[c] = "idle", !.joinable = TRUE]
    /\ UNCHANGED <<rcRest, session_info_, is_reconnecting_, current_retry_count_, should_stop_>>

\* handle_invalid_session: the block under the lock_guard
RcHandleInvalidSession(c, can_resume) ==
    /\ rc.pc[c] = "idle"
    /\ rc.mutex_ = "free"
    /\ session_info_' = IF can_resume
                        THEN [session_info_ EXCEPT !.can_resume = TRUE]
                        ELSE ClearedSession
    /\ rc' = [rc EXCEPT !.pc[c] = "his_start"]
    /\ UNCHANGED <<rcRest, is_reconnecting_, current_retry_count_, should_stop_, rt_pc>>

\* handle_invalid_session: start_reconnect_sequence, the mutex released
RcStartSequence(c) ==
    /\ rc.pc[c] = "his_start"
    /\ IF is_reconnecting_
       THEN /\ rc' = [rc EXCEPT !.pc[c] = "idle"]
            /\ UNCHANGED <<is_reconnecting_, current_retry_count_, should_stop_>>
       ELSE /\ is_reconnecting_' = TRUE
            /\ current_retry_count_' = 0
            /\ should_stop_' = FALSE
            /\ rc' = [rc EXCEPT !.pc[c] = "his_join"]
    /\ UNCHANGED <<rcRest, session_info_, rt_pc>>

\* start_reconnect_sequence: the join has returned, the new thread is started
RcStartJoined(c) ==
    /\ rc.pc[c] = "his_join"
    /\ rt_pc = "idle"
    /\ rt_pc' = "loop"
    /\ rc' = [rc EXCEPT !.pc[c] = "idle", !.joinable = TRUE]
    /\ UNCHANGED <<rcRest, session_info_, is_reconnecting_, current_retry_count_, should_stop_>>

\* handle_connection_restored: the block under the lock_guard; it goes on to
\* join reconnect_thread_ if that is joinable
RcConnectionRestored(c) ==
    /\ rc.pc[c] = "idle"
    /\ rc.mutex_ = "free"
    /\ is_reconnecting_' = FALSE
    /\ current_retry_count_' = 0
    /\ should_stop_' = TRUE
    /\ rc' = [rc EXCEPT !.pc[c] = IF rc.joinable THEN "hcr_join" ELSE "idle"]
    /\ UNCHANGED <<rcRest, session_info_, rt_pc>>

\* handle_connection_restored: reconnect_thread_.join() returns
RcRestoredJoined(c) ==
    /\ rc.pc[c] = "hcr_join"
    /\ rt_pc = "idle"
    /\ rc' = [rc EXCEPT !.pc[c] = "idle", !.joinable = FALSE]
    /\ UNCHANGED <<rcRest, rmVars>>

\* stop_reconnecting: should_stop_ = true, notify_all, then the join if
\* reconnect_thread_ is joinable
RcStop(c) ==
    /\ rc.pc[c] = "idle"
    /\ should_stop_' = TRUE
    /\ rc' = [rc EXCEPT !.pc[c] = IF rc.joinable THEN "stop_join" ELSE "idle"]
    /\ UNCHANGED <<rcRest, session_info_, is_reconnecting_, current_retry_count_, rt_pc>>

\* stop_reconnecting: reconnect_thread_.join() returns
RcStopJoined(c) ==
    /\ rc.pc[c] = "stop_join"
    /\ rt_pc = "idle"
    /\ rc' = [rc EXCEPT !.pc[c] = "idle", !.joinable = FALSE]
    /\ UNCHANGED <<rcRest, rmVars>>

\* exponential_backoff_reconnect: the while condition
BackoffLoop ==
    /\ rt_pc = "loop"
    /\ rt_pc' = IF ~should_stop_ /\ current_retry_count_ < max_retries_ THEN "wait" ELSE "end"
    /\ UNCHANGED <<rcRest, rc, session_info_, is_reconnecting_, current_retry_count_, should_stop_>>

\* unique_lock on mutex_ and the first test of wait_for's predicate: the
\* function returns if should_stop_ is set, else the thread waits, the mutex
\* released
BackoffWaitEnter ==
    /\ rt_pc = "wait"
    /\ rc.mutex_ = "free"
    /\ rt_pc' = IF should_stop_ THEN "idle" ELSE "waiting"
    /\ UNCHANGED <<rcRest, rc, session_info_, is_reconnecting_, current_retry_count_, should_stop_>>

\* wait_for is notified or its delay ends: it locks mutex_ again and tests the
\* predicate; `return` if should_stop_ is set, else the block ends
BackoffWake ==
    /\ rt_pc = "waiting"
    /\ rc.mutex_ = "free"
    /\ rt_pc' = IF should_stop_ THEN "idle" ELSE "check"
    /\ UNCHANGED <<rcRest, rc, session_info_, is_reconnecting_, current_retry_count_, should_stop_>>

\* if (should_stop_.load()) break;
BackoffCheck ==
    /\ rt_pc = "check"
    /\ rt_pc' = IF should_stop_ THEN "end" ELSE "attempt"
    /\ UNCHANGED <<rcRest, rc, session_info_, is_reconnecting_, current_retry_count_, should_stop_>>

\* attempt_reconnection: should_resume() locks mutex_; the callbacks hand a
\* payload to send(), which drops it, the transport being closed here;
\* current_retry_count_++
BackoffAttempt ==
    /\ rt_pc = "attempt"
    /\ rc.mutex_ = "free"
    /\ current_retry_count_' = current_retry_count_ + 1
    /\ rt_pc' = "sleep"
    /\ UNCHANGED <<rcRest, rc, session_info_, is_reconnecting_, should_stop_>>

\* std::this_thread::sleep_for(1000 ms)
BackoffSleep ==
    /\ rt_pc = "sleep"
    /\ rt_pc' = "loop"
    /\ UNCHANGED <<rcRest, rc, session_info_, is_reconnecting_, current_retry_count_, should_stop_>>

\* past the loop: is_reconnecting_ = false, and the thread ends
BackoffEnd ==
    /\ rt_pc = "end"
    /\ is_reconnecting_' = FALSE
    /\ rt_pc' = "idle"
    /\ UNCHANGED <<rcRest, rc, session_info_, current_retry_count_, should_stop_>>

NextController ==
    \/ \E c \in Callers, close_code \in CloseCodes : RcHandleDisconnect(c, close_code)
    \/ \E c \in Callers : RcHandleDisconnectJoined(c)
    \/ \E c \in Callers, can_resume \in BOOLEAN : RcHandleInvalidSession(c, can_resume)
    \/ \E c \in Callers : RcStartSequence(c)
    \/ \E c \in Callers : RcStartJoined(c)
    \/ \E c \in Callers : RcConnectionRestored(c)
    \/ \E c \in Callers : RcRestoredJoined(c)
    \/ \E c \in Callers : RcStop(c)
    \/ \E c \in Callers : RcStopJoined(c)
    \/ BackoffLoop
    \/ BackoffWaitEnter
    \/ BackoffWake
    \/ BackoffCheck
    \/ BackoffAttempt
    \/ BackoffSleep
    \/ BackoffEnd

SpecController == Init /\ [][NextController]_vars

\* WebSocketClient::Impl::disconnect called by the user (ShardManager::stop
\* calls it for every shard): client_.close(connection_hdl_, normal) if
\* is_connected_, then thread_.join(). The close handler runs on the io thread
\* when the closing handshake ends (TransportClose).
Disconnect ==
    /\ cs_pc = "idle"
    /\ io_pc # "none"
    /\ cs_pc' = "disconnecting"
    /\ UNCHANGED <<restVars, wsVars, rmVars, shard_info_, connects, obsVars>>

\* disconnect: thread_.join() returns, client_.run() having ended
DisconnectJoined ==
    /\ cs_pc = "disconnecting"
    /\ io_pc = "finished"
    /\ io_pc' = "none"
    /\ cs_pc' = "disconnected"
    /\ UNCHANGED <<restVars, transport, is_connected_, rmVars, shard_info_, connects, obsVars>>

\* a connection that the user disconnects
NextDisconnect ==
    \/ ConnectShard
    \/ ConnectShardSend
    \/ TransportOpen
    \/ \E close_code \in CloseCodes : TransportClose(close_code)
    \/ \E sid \in SessionIds : ServerReady(sid)
    \/ ServerDispatch
    \/ Disconnect
    \/ DisconnectJoined
    \/ RtLoop
    \/ RtWait
    \/ RtCheck
    \/ RtAttempt
    \/ RtSleep
    \/ \E enabled \in BOOLEAN : enable_auto_reconnect(enabled)

SpecDisconnect == Init /\ [][NextDisconnect]_vars

(***************************************************************************)
(* ShardManager over all its shards                                        *)
(***************************************************************************)
mgrRest == <<now, limiterVars, queueVars, httpVars, eventVars, wsVars, rmVars, smVars, obsVars, hb, call, cm, cio, rc>>

\* update_session_limits(): the budget is renewed once reset_after has passed
\* since last_reset. Nothing else ever assigns session_start_limit_remaining.
update_session_limits(m) ==
    IF now - m.session_info_.last_reset >= m.session_info_.session_start_limit_reset_after
    THEN [m EXCEPT !.session_info_.session_start_limit_remaining = m.session_info_.session_start_limit_total,
                   !.session_info_.last_reset = now,
                   !.sessions_started_recently_ = 0]
    ELSE m

\* GatewaySession::can_start_session()
can_start_session(m) == m.session_info_.session_start_limit_remaining > 0

\* The constructor: session_info_ = get_gateway_info() holds what /gateway/bot
\* reported, last_reset is the time of the answer; config_ is the caller's.
ShardManagerCtor(max_concurrency, total, remaining, reset_after) ==
    /\ ~mgr.constructed
    /\ mgr' = [mgr EXCEPT !.constructed = TRUE,
                          !.max_concurrency = max_concurrency,
                          !.session_info_ = [session_start_limit_total |-> total,
                                             session_start_limit_remaining |-> remaining,
                                             session_start_limit_reset_after |-> reset_after,
                                             last_reset |-> now]]
    /\ UNCHANGED mgrRest

\* start() up to its loop
start ==
    /\ mgr.constructed
    /\ ~mgr.is_running_
    /\ mgr' = [mgr EXCEPT !.is_running_ = TRUE, !.st_pc = "loop", !.i = 0]
    /\ UNCHANGED mgrRest

\* the head of the loop of start(): `if (!can_start_session())
\* wait_for_session_slot();`, and past the loop the joins
StartLoop ==
    /\ mgr.st_pc = "loop"
    /\ IF mgr.i >= MaxShards
       THEN mgr' = [mgr EXCEPT !.st_pc = "join"]
       ELSE LET m == update_session_limits(mgr)
            IN mgr' = [m EXCEPT !.st_pc = IF can_start_session(m) THEN "launch" ELSE "wait"]
    /\ UNCHANGED mgrRest

\* wait_for_session_slot(): one round of its loop after the sleep of a second
wait_for_session_slot ==
    /\ mgr.st_pc = "wait"
    /\ LET m == update_session_limits(mgr)
       IN /\ can_start_session(m)
          /\ mgr' = [m EXCEPT !.st_pc = "launch", !.waited_for_slot = TRUE]
    /\ UNCHANGED mgrRest

\* connection_threads_.emplace_back(...), then the sleep of connection_delay
\* when a further shard follows. config_.max_concurrency is not read.
StartLaunch ==
    /\ mgr.st_pc = "launch"
    /\ mgr' = [mgr EXCEPT !.th_pc[mgr.i] = "spawned",
                          !.launched = Append(@, mgr.i),
                          !.st_pc = IF mgr.i < MaxShards - 1 THEN "sleep" ELSE "loop",
                          !.i = IF mgr.i < MaxShards - 1 THEN @ ELSE @ + 1]
    /\ UNCHANGED mgrRest

\* sleep_for(config_.connection_delay) is over
StartSlept ==
    /\ mgr.st_pc = "sleep"
    /\ mgr' = [mgr EXCEPT !.st_pc = "loop", !.i = @ + 1]
    /\ UNCHANGED mgrRest

\* the joins of start(): every connection thread has finished
StartJoined ==
    /\ mgr.st_pc = "join"
    /\ \A s \in ShardIds : mgr.th_pc[s] = "done"
    /\ mgr' = [mgr EXCEPT !.st_pc = "returned"]
    /\ UNCHANGED mgrRest

\* connect_shard up to the connect: initialize_shard creates the client,
\* then sessions_started_recently_++ and update_session_limits()
connect_shard_begin(m, s) ==
    update_session_limits([m EXCEPT !.shards_ = @ \cup {s},
                                    !.sessions_started_recently_ = @ + 1])

\* connect_shard from the connect on: is_connected, then RESUME when the
\* shard is resumable and has a session id, IDENTIFY otherwise
connect_shard_end(m, s) ==
    [m EXCEPT !.shard_info_[s].is_connected = TRUE,
              !.identities = Append(@, [shard |-> s,
                                        op |-> IF m.shard_info_[s].is_resumable
                                                  /\ m.shard_info_[s].session_id # ""
                                               THEN "RESUME" ELSE "IDENTIFY"])]

\* a connection thread of start() enters connect_shard(s)
ThreadConnectShard(s) ==
    /\ mgr.th_pc[s] = "spawned"
    /\ mgr' = [connect_shard_begin(mgr, s) EXCEPT !.th_pc[s] = "connect_shard"]
    /\ UNCHANGED mgrRest

\* and leaves it
ThreadConnected(s) ==
    /\ mgr.th_pc[s] = "connect_shard"
    /\ mgr' = [connect_shard_end(mgr, s) EXCEPT !.th_pc[s] = "done"]
    /\ UNCHANGED mgrRest

\* handle_shard_ready on the shard's io thread
ShardReady(s, sid) ==
    /\ s \in mgr.shards_
    /\ mgr.shard_info_[s].is_connected
    /\ mgr.shard_info_[s].session_id = ""
    /\ mgr' = [mgr EXCEPT !.shard_info_[s].session_id = sid,
                          !.shard_info_[s].is_resumable = TRUE,
                          !.shard_info_[s].sequence_number = 0]
    /\ UNCHANGED mgrRest

\* handle_shard_event on the shard's io thread stores the sequence number
ShardEvent(s) ==
    /\ s \in mgr.shards_
    /\ mgr.shard_info_[s].is_connected
    /\ mgr.shard_info_[s].session_id # ""
    /\ mgr.shard_info_[s].sequence_number < 1
    /\ mgr' = [mgr EXCEPT !.shard_info_[s].sequence_number = @ + 1]
    /\ UNCHANGED mgrRest

\* identify_all() up to its call of reconnect_all(false): it holds mutex_
\* and has cleared every shard's session
identify_all ==
    /\ mgr.st_pc = "returned"
    /\ mgr.op_pc = "none"
    /\ mgr' = [mgr EXCEPT !.shard_info_ = [s \in ShardIds |->
                                  [@[s] EXCEPT !.session_id = "", !.sequence_number = 0,
                                               !.is_resumable = FALSE]],
                          !.op_pc = "reconnect_all",
                          !.op_from = Len(mgr.identities)]
    /\ UNCHANGED mgrRest

\* reconnect_all locks mutex_, which its caller identify_all holds: locking a
\* std::mutex the thread owns is undefined; the thread blocks for ever, ...
ReconnectAllDeadlock ==
    /\ mgr.op_pc = "reconnect_all"
    /\ mgr' = [mgr EXCEPT !.op_pc = "deadlocked"]
    /\ UNCHANGED mgrRest

\* ... or goes on: disconnect_shard for every shard, the sleep of two seconds
ReconnectAllDisconnected ==
    /\ mgr.op_pc = "reconnect_all"
    /\ mgr' = [mgr EXCEPT !.shard_info_ = [s \in ShardIds |->
                                  [@[s] EXCEPT !.is_connected = IF s \in mgr.shards_ THEN FALSE ELSE @]],
                          !.op_pc = "loop", !.op_i = 0]
    /\ UNCHANGED mgrRest

\* the loop of reconnect_all(resume = false): the session is cleared and
\* connect_shard(i) entered; its initialize_shard locks mutex_ once more
ReconnectAllConnectShard ==
    /\ mgr.op_pc = "loop"
    /\ IF mgr.op_i >= MaxShards
       THEN mgr' = [mgr EXCEPT !.op_pc = "returned"]
       ELSE mgr' = [mgr EXCEPT !.shard_info_[mgr.op_i].session_id = "",
                               !.shard_info_[mgr.op_i].sequence_number = 0,
                               !.op_pc = "initialize_shard"]
    /\ UNCHANGED mgrRest

InitializeShardDeadlock ==
    /\ mgr.op_pc = "initialize_shard"
    /\ mgr' = [mgr EXCEPT !.op_pc = "deadlocked"]
    /\ UNCHANGED mgrRest

\* connect_shard(i) runs to its end, then the sleep of connection_delay
ReconnectAllConnected ==
    /\ mgr.op_pc = "initialize_shard"
    /\ mgr' = [connect_shard_end(connect_shard_begin(mgr, mgr.op_i), mgr.op_i)
                  EXCEPT !.op_pc = "loop", !.op_i = @ + 1]
    /\ UNCHANGED mgrRest

NextShards ==
    \/ \E max_concurrency \in 1..MaxShards, total \in 1..MaxBudget, reset_after \in 0..MaxTime :
         \E remaining \in 0..total :
           ShardManagerCtor(max_concurrency, total, remaining, reset_after)
    \/ start
    \/ StartLoop
    \/ wait_for_session_slot
    \/ StartLaunch
    \/ StartSlept
    \/ StartJoined
    \/ \E s \in ShardIds : ThreadConnectShard(s)
    \/ \E s \in ShardIds : ThreadConnected(s)
    \/ \E s \in ShardIds, sid \in SessionIds : ShardReady(s, sid)
    \/ \E s \in ShardIds : ShardEvent(s)
    \/ identify_all
    \/ ReconnectAllDeadlock
    \/ ReconnectAllDisconnected
    \/ ReconnectAllConnectShard
    \/ InitializeShardDeadlock
    \/ ReconnectAllConnected
    \/ Tick

SpecShards == Init /\ [][NextShards]_vars

\* the shards whose connect/identify operation is in progress
InProgress == {s \in ShardIds : mgr.th_pc[s] = "connect_shard"}

\* C27: during start() the shard connections are launched in increasing
\* shard-id order, and at no time are more than max_concurrency shard
\* connect/identify operations in progress at once.
C27_IdentifyConcurrencyCapped ==
    /\ \A j \in 1..Len(mgr.launched) : mgr.launched[j] = j - 1
    /\ Cardinality(InProgress) <= mgr.max_concurrency

\* C28: the number of shard sessions the manager starts within one reset
\* window never exceeds the remaining budget that /gateway/bot reported
\* for that window.
C28_StartsWithinBudget ==
    mgr.sessions_started_recently_ <= mgr.session_info_.session_start_limit_remaining

\* the identity payloads chosen since identify_all was called
SinceIdentifyAll == SubSeq(mgr.identities, mgr.op_from + 1, Len(mgr.identities))

\* C29: identify_all() terminates (its thread is never blocked for ever),
\* and when it has returned every shard was reconnected, one after another
\* in shard order, with IDENTIFY and never RESUME.
C29_IdentifyAllTerminates ==
    /\ mgr.op_pc # "deadlocked"
    /\ mgr.op_pc = "returned" =>
         /\ Len(SinceIdentifyAll) = MaxShards
         /\ \A j \in 1..MaxShards : SinceIdentifyAll[j] = [shard |-> j - 1, op |-> "IDENTIFY"]


(***************************************************************************)
(* ShardManager::get_shard_for_guild                                       *)
(* A guild id is a string of decimal digits, here a sequence over 0..9.    *)
(* uint64_t is kept as three limbs l2:l1:l0 of 20, 22 and 22 bits.         *)
(***************************************************************************)
guildRest == <<now, limiterVars, queueVars, httpVars, eventVars, wsVars, rmVars, smVars, obsVars, hb, mgr, cm, cio, rc>>

\* the first digits of the guild ids handed in: none, those next to 2^22, a
\* snowflake, and those next to 2^64
GuildIdPrefixes == { << >>,
                     <<4, 1, 9, 4, 3>>,
                     <<6, 1, 3, 4, 2, 5, 6, 4, 8, 6, 8, 5, 5, 4, 7, 5>>,
                     <<1, 8, 4, 4, 6, 7, 4, 4, 0, 7, 3, 7, 0, 9, 5, 5, 1, 6>> }
GuildIds == {prefix \o suffix : prefix \in GuildIdPrefixes,
                                suffix \in UNION {[1..k -> 0..9] : k \in 0..MaxSuffix}}
\* values of config_.shard_count (validate_config: positive)
ShardCounts == {1, 2, 3, 4, 16}

Uint64Zero == [l0 |-> 0, l1 |-> 0, l2 |-> 0, out_of_range |-> FALSE]

\* one digit of the conversion: acc * 10 + digit in uint64_t, out_of_range
\* once the value passes 2^64 - 1
stoull_digit(acc, digit) ==
    LET t0 == acc.l0 * 10 + digit
        t1 == acc.l1 * 10 + (t0 \div TwoTo22)
        t2 == acc.l2 * 10 + (t1 \div TwoTo22)
    IN [l0 |-> t0 % TwoTo22, l1 |-> t1 % TwoTo22, l2 |-> t2 % TwoTo20,
        out_of_range |-> acc.out_of_range \/ t2 >= TwoTo20]

RECURSIVE stoull_from(_, _)
stoull_from(acc, digits) ==
    IF digits = << >> THEN acc
    ELSE stoull_from(stoull_digit(acc, Head(digits)), Tail(digits))

\* std::stoull(guild_id)
stoull(guild_id) == stoull_from(Uint64Zero, guild_id)

\* the modulus taken of the value without the shift
UnshiftedModulo(guild_id_num, shard_count) ==
    ((((guild_id_num.l2 % shard_count) * TwoTo22 + guild_id_num.l1) % shard_count) * TwoTo22
        + guild_id_num.l0) % shard_count

\* static_cast<int>((guild_id_num >> 22) % config_.shard_count): the shift
\* drops the limb l0
ShiftedModulo(guild_id_num, shard_count) ==
    ((guild_id_num.l2 % shard_count) * TwoTo22 + guild_id_num.l1) % shard_count

\* get_shard_for_guild: 0 for one shard, 0 when stoull throws (no digits:
\* invalid_argument; more than 2^64 - 1: out_of_range)
ShardForGuild(guild_id, shard_count) ==
    IF shard_count <= 1 THEN 0
    ELSE IF guild_id = << >> \/ stoull(guild_id).out_of_range THEN 0
    ELSE ShiftedModulo(stoull(guild_id), shard_count)

get_shard_for_guild(guild_id, shard_count) ==
    /\ call' = [guild_id |-> guild_id, shard_count |-> shard_count,
                result |-> ShardForGuild(guild_id, shard_count)]
    /\ UNCHANGED guildRest

\* The function reads config_.shard_count and writes nothing: one call is
\* followed, from the state in which none was made.
NextGuild ==
    /\ call = NoCall
    /\ \E guild_id \in GuildIds, shard_count \in ShardCounts :
          get_shard_for_guild(guild_id, shard_count)

SpecGuild == Init /\ [][NextGuild]_vars

\* ---- the rule, computed on the decimal digits
\* the digits of floor(G / 2^22), by long division
RECURSIVE QuotientBy2To22(_, _)
QuotientBy2To22(digits, remainder) ==
    IF digits = << >> THEN << >>
    ELSE LET t == remainder * 10 + Head(digits)
         IN <<t \div TwoTo22>> \o QuotientBy2To22(Tail(digits), t % TwoTo22)

\* the number with these digits, modulo n
RECURSIVE DigitsModulo(_, _, _)
DigitsModulo(digits, n, r) ==
    IF digits = << >> THEN r
    ELSE DigitsModulo(Tail(digits), n, (r * 10 + Head(digits)) % n)

RECURSIVE StripZeros(_)
StripZeros(digits) ==
    IF digits # << >> /\ Head(digits) = 0 THEN StripZeros(Tail(digits)) ELSE digits

\* a <= b for digit sequences of one length
RECURSIVE DigitsLeq(_, _)
DigitsLeq(a, b) ==
    \/ a = << >>
    \/ Head(a) < Head(b)
    \/ Head(a) = Head(b) /\ DigitsLeq(Tail(a), Tail(b))

\* 2^64 - 1
Uint64Max == <<1, 8, 4, 4, 6, 7, 4, 4, 0, 7, 3, 7, 0, 9, 5, 5, 1, 6, 1, 5>>

\* the digits are a decimal u64
IsDecimalU64(digits) ==
    /\ digits # << >>
    /\ \/ Len(StripZeros(digits)) < Len(Uint64Max)
       \/ Len(StripZeros(digits)) = Len(Uint64Max) /\ DigitsLeq(StripZeros(digits), Uint64Max)

\* C30: for every guild id G (decimal u64) and every shard count N >= 1,
\* get_shard_for_guild(G) equals (G >> 22) mod N, and the result is in 0..N-1.
C30_ShardForGuildRule ==
    (call.shard_count >= 1 /\ IsDecimalU64(call.guild_id)) =>
        /\ call.result = DigitsModulo(QuotientBy2To22(call.guild_id, 0), call.shard_count, 0)
        /\ call.result \in 0..(call.shard_count - 1)

\* a snowflake routed among 16 shards to a shard other than 0
C30_SnowflakeRouted ==
    /\ call.guild_id = <<6, 1, 3, 4, 2, 5, 6, 4, 8, 6, 8, 5, 5, 4, 7, 5, 4, 1>>
    /\ call.shard_count = 16
    /\ call.result = 8


(***************************************************************************)
(* Properties of the gateway                                               *)
(***************************************************************************)
\* C1: after a disconnect with a resumable close code while the shard holds a
\* non-empty session id and a last sequence, the first identity payload
\* transmitted afterwards is RESUME with that session id and that sequence:
\* no IDENTIFY is transmitted in its place.
C1_NextIdentityIsResume ==
    (resume_due # NoSession /\ next_identity # NoPayload)
        => next_identity = Resume(resume_due.session_id, resume_due.seq)

\* C2: the reconnect attempt that follows a close with one of the codes 4004,
\* 4010..4014 runs with the session identity cleared (no session id, sequence
\* 0, resumable flag off) and builds IDENTIFY, not RESUME.
C2_NonResumableCloseClearsSession ==
    attempt_log.after # 0
        => /\ attempt_log.session = ClearedSession
           /\ attempt_log.built = Identify

\* the reconnect sequence ran through all its max_retries_ attempts and ended
GaveUp == rt_pc = "idle" /\ ~is_reconnecting_ /\ current_retry_count_ = max_retries_

\* C3: after the transport dropped with auto-reconnect enabled, the
\* reconnection controller does not use up its max_retries_ attempts without a
\* new connect having been performed.
C3_ReconnectsBeforeGivingUp == GaveUp => ~dropped

\* C21: a reconnect sequence makes at most max_retries_ attempts, and when it
\* has made them all without success it has stopped (is_reconnecting_ false)
\* and has told its owner of the fatal reconnect error.
C21_GivesUpWithFatalError ==
    /\ current_retry_count_ <= max_retries_
    /\ GaveUp => "fatal_error" \in rt_log.told_owner

\* C22: after a close with code 4004 no reconnect sequence is running and no
\* reconnect attempt is made.
C22_AuthFailureIsFatal ==
    /\ nonres_close = 4004 => (~is_reconnecting_ /\ rt_pc = "idle")
    /\ attempt_log.after # 4004

\* C23: once disconnect() has returned the connection is closed and stays so:
\* no reconnect sequence has been started or is running, and no IDENTIFY or
\* RESUME is on its way.
C23_DisconnectIsFinal ==
    cs_pc = "disconnected" =>
        /\ transport = "closed" /\ ~is_connected_
        /\ ~is_reconnecting_ /\ rt_pc = "idle"
        /\ wire = NoPayload

\* C24: whenever the resumable flag of the reconnection controller's session,
\* or of the shard's record, is true, its session id is not empty and its
\* last sequence is greater than 0.
C24_ResumableHasSession ==
    /\ session_info_.can_resume =>
          (session_info_.session_id # "" /\ session_info_.sequence_number > 0)
    /\ shard_info_.is_resumable =>
          (shard_info_.session_id # "" /\ shard_info_.sequence_number > 0)

\* the close codes after which a resume is allowed
SessionPreservingCodes == {4000, 4001, 4002, 4003, 4005, 4007, 4008, 4009}

\* C25: a close with one of the codes 4000..4003, 4005, 4007..4009 leaves the
\* controller's session identity (session id, last sequence, resumable flag)
\* as it was.
C25_CloseKeepsSession ==
    [][\A close_code \in SessionPreservingCodes :
          TransportClose(close_code) => session_info_' = session_info_]_vars

\* C26: the time the controller has waited before attempt k is at least
\* 0.8 * base_delay_ * 2^k, at most 1.2 * base_delay_ * 2^k, and at most
\* max_delay_.
C26_BackoffDelayInBand ==
    rt_log.before.attempt >= 0 =>
        /\ 10 * rt_log.before.waited >= 8 * base_delay_ * Pow2(rt_log.before.attempt)
        /\ 10 * rt_log.before.waited <= 12 * base_delay_ * Pow2(rt_log.before.attempt)
        /\ rt_log.before.waited <= max_delay_


(***************************************************************************)
(* The heartbeat of WebSocketClient::Impl                                  *)
(***************************************************************************)
hbRest == <<now, limiterVars, queueVars, httpVars, eventVars, wsVars, rmVars, smVars, obsVars, mgr, call, cm, cio, rc>>

\* message handler, op 10 HELLO with d.heartbeat_interval: start_heartbeat.
\* Its join of a former heartbeat thread returns only when that thread has
\* ended; then heartbeat_thread_ starts and sleeps.
MessageHello(interval) ==
    /\ transport = "open"
    /\ io_pc = "run"
    /\ hb.thread \in {"none", "exited"}
    /\ hb' = [NoHeartbeat EXCEPT !.thread = "sleeping", !.interval = interval, !.beats = hb.beats]
    /\ UNCHANGED hbRest

\* message handler, op 0 DISPATCH with sequence number s: no branch of the
\* handler takes it and last_sequence_ is not written; event_callback_ is
\* called. received notes the s of this payload.
MessageDispatch(s) ==
    /\ transport = "open"
    /\ io_pc = "run"
    /\ s > hb.received
    /\ hb' = [hb EXCEPT !.received = s]
    /\ UNCHANGED hbRest

\* message handler, op 11 HEARTBEAT_ACK, the server's answer to a heartbeat:
\* no branch of the handler takes it; event_callback_ is called. acked notes
\* that it arrived.
MessageHeartbeatAck ==
    /\ transport = "open"
    /\ io_pc = "run"
    /\ hb.sent # << >>
    /\ ~hb.acked
    /\ hb' = [hb EXCEPT !.acked = TRUE, !.unacked_intervals = 0]
    /\ UNCHANGED hbRest

\* heartbeat_thread_: sleep_for(interval_ms) returns. If is_connected_, the
\* heartbeat {op: 1, d: last_sequence_} is sent and the loop goes on; if not,
\* the loop ends. last_sequence_ has no initializer and is assigned nowhere:
\* what is read from it is any int. unacked_intervals counts the intervals
\* that have passed in a row, a heartbeat having been sent before them, with
\* no HEARTBEAT_ACK received.
HeartbeatWake ==
    /\ hb.thread = "sleeping"
    /\ hb.beats < MaxBeats
    /\ IF is_connected_
       THEN \E last_sequence_ \in 0..MaxSeq :
               hb' = [hb EXCEPT !.beats = @ + 1,
                                !.sent = Append(@, [d |-> last_sequence_, received |-> hb.received]),
                                !.acked = FALSE,
                                !.unacked_intervals = IF hb.acked \/ hb.sent = << >> THEN 0 ELSE @ + 1]
       ELSE hb' = [hb EXCEPT !.beats = @ + 1, !.thread = "exited"]
    /\ UNCHANGED hbRest

\* a connection, the payloads the server sends on it and the heartbeat thread
NextHeartbeat ==
    \/ ConnectShard
    \/ ConnectShardSend
    \/ TransportOpen
    \/ \E close_code \in CloseCodes : TransportClose(close_code)
    \/ \E interval \in 1..MaxTime : MessageHello(interval)
    \/ \E s \in 1..MaxSeq : MessageDispatch(s)
    \/ MessageHeartbeatAck
    \/ HeartbeatWake

SpecHeartbeat == Init /\ [][NextHeartbeat]_vars

\* C19: every heartbeat sent carries as d the sequence number of the DISPATCH
\* payload received last on the connection before it.
C19_HeartbeatCarriesLastSequence ==
    \A i \in 1..Len(hb.sent) : hb.sent[i].d = hb.sent[i].received

\* C20: when two heartbeat intervals in a row have passed on a connection with
\* no HEARTBEAT_ACK received, the client has closed the connection (with code
\* 4000, for the reconnect to follow).
C20_ZombieConnectionClosed ==
    hb.unacked_intervals >= 2 => ~is_connected_

\* the deadlines that apply to a route at time t: the global reset, the
\* bucket's reset while its remaining is 0, the slot of a saturated local policy
DeadlinesOf(e, t, limits) ==
    {global_reset_time_}
    \cup (IF e \in DOMAIN rate_limits_ /\ rate_limits_[e].remaining = 0
          THEN {rate_limits_[e].reset_time} ELSE {})
    \cup (IF /\ e \in DOMAIN limits
             /\ limits[e].request_times # << >>
             /\ Len(limits[e].request_times) >= limits[e].max_requests
          THEN {Head(limits[e].request_times) + limits[e].window} ELSE {})

LatestOf(S) == CHOOSE d \in S : \A x \in S : x <= d

\* C35: the wait get_wait_time computes for a route is max(0, D - now), D the
\* latest of the deadlines that apply (global reset, exhausted bucket's reset,
\* local sliding-window slot), so can_make_request(route) is true once the
\* wait has elapsed. (Routes whose local policy allows no request at all are
\* left out: for them get_wait_time reads the front of an empty queue.)
C35_WaitCoversEveryDeadline ==
    \A e \in Routes :
        (e \in DOMAIN endpoint_limits_ => endpoint_limits_[e].max_requests >= 1) =>
            LET limits == cleanup_old_requests(endpoint_limits_, e, now)
                wait_time == GetWaitTime(e, now, limits)
                D == LatestOf(DeadlinesOf(e, now, limits))
                after == now + wait_time
            IN /\ wait_time = (IF D > now THEN D - now ELSE 0)
               /\ CanMakeRequestResult(e, after, cleanup_old_requests(limits, e, after))

\* C36: no public ShardManager operation blocks for ever on the manager's own
\* non-recursive mutex: reconnect_shard (like connect_shard_by_id,
\* reconnect_all and get_statistics) returns although it holds mutex_ while
\* its helper locks mutex_ again.
C36_OperationReturns == cs_pc # "deadlocked"

\* C37: shutdown() always terminates: the wake-up of the worker is never
\* lost, that is, shutdown() never waits in join() for a worker that has
\* blocked on the queue condition variable after the notification was given
\* (nothing but a spurious wake-up or a later submission would wake it).
C37_WakeupNotLost == ~(sd_pc = "join" /\ worker_pc = "blocked")

\* C38: after stop_reconnecting() has returned, no reconnect attempt of the
\* stopped sequence is made and is_reconnecting() is false, so that a later
\* handle_disconnect or handle_invalid_session starts a fresh sequence: once
\* the call has returned, is_reconnecting_ is set only while a reconnect
\* thread (of a fresh sequence) runs.
C38_StoppedIsNotReconnecting ==
    cs_pc = "stopped" => (is_reconnecting_ => rt_pc # "idle")

\* C39: the ReconnectionManager never deadlocks: no caller waits in
\* handle_disconnect's join, holding mutex_, for a reconnect thread whose next
\* step is to lock mutex_ (its cancellable wait, should_resume).
C39_JoinNeverHoldsNeededMutex ==
    \A c \in Callers :
        ~(rc.pc[c] = "hd_join" /\ rc.mutex_ = c /\ rt_pc \in {"wait", "waiting", "attempt"})

\* C34: IDENTIFY or RESUME is sent only after HELLO has been received on the
\* same transport connection, and once the transport is open, HELLO has
\* arrived and the send was issued, the payload has gone out: it was not
\* dropped for having been issued before the transport was open.
C34_IdentityFollowsHello ==
    /\ wire # NoPayload => hb.interval > 0
    /\ (transport = "open" /\ hb.interval > 0 /\ connects > 0 /\ cs_pc = "idle") => wire # NoPayload

(***************************************************************************)
(* EventDispatcher                                                         *)
(***************************************************************************)
otherVars == <<limiterVars, queueVars, httpVars, gatewayVars>>

Priorities == {0, 1}
\* the types of the callables handed to on(): two closures of one lambda
\* expression (or two function pointers) have the same type
CallableTypes == {"F", "G"}
\* the handler_id argument of on(); "" is the default, no id given
GivenIds == {"", "a"}

\* on(): "handler_" + the address of callback.target_type()
SynthesizedId(type) == "handler_" \o type

\* the vector of an event (empty when the map has no such key)
HandlersOf(event) == IF event \in DOMAIN handlers_ THEN handlers_[event] ELSE << >>

\* the comparison of sort_handlers
SortsBefore(a, b) ==
    IF a.priority # b.priority THEN a.priority > b.priority
    ELSE a.created_at < b.created_at

\* std::sort with that comparison: any arrangement of the elements in which no
\* element sorts before an earlier one (the order of equivalent elements is
\* unspecified)
SortResults(h) ==
    {r \in {[i \in 1..Len(h) |-> h[p[i]]] : p \in Permutations(1..Len(h))} :
        \A i, j \in 1..Len(h) : i < j => ~SortsBefore(r[j], r[i])}

\* an EventHandlerInfo that was moved from: its callback and id are left in a
\* valid but unspecified state, either emptied or as they were
MovedFrom(x, retain) == IF retain THEN x ELSE [x EXCEPT !.cb = 0, !.id = ""]

\* std::remove_if(handlers.begin(), handlers.end(), id == handler_id): the
\* elements kept are moved to the front, the vector keeps its size, new_end is
\* the index of the returned iterator
RemoveIf(h, handler_id, retain) ==
    LET kept == SelectSeq(h, LAMBDA x : x.id # handler_id)
    IN  [list |-> [j \in 1..Len(h) |->
                      IF j <= Len(kept) THEN kept[j]
                      ELSE IF h[j].id = handler_id THEN h[j]
                      ELSE MovedFrom(h[j], retain)],
         new_end |-> Len(kept) + 1]

\* handler_list.erase(std::remove_if(...)) of emit: erases the one element at
\* the returned iterator. With no match the iterator is end(), and erase(end())
\* is undefined: the program aborts (ub) or the last element is destroyed.
EraseOne(h, handler_id) ==
    IF \E j \in 1..Len(h) : h[j].id = handler_id
    THEN {LET r == RemoveIf(h, handler_id, retain)
          IN  [ub |-> FALSE,
               list |-> [j \in 1..(Len(h) - 1) |-> IF j < r.new_end THEN r.list[j] ELSE r.list[j + 1]]]
            : retain \in BOOLEAN}
    ELSE {[ub |-> TRUE, list |-> h]}
         \cup (IF h = << >> THEN {} ELSE {[ub |-> FALSE, list |-> SubSeq(h, 1, Len(h) - 1)]})

RECURSIVE EraseAll(_, _)
\* emit: the loop over to_remove
EraseAll(o, to_remove) ==
    IF o.ub \/ to_remove = << >> THEN {o}
    ELSE UNION {EraseAll(o2, Tail(to_remove)) : o2 \in EraseOne(o.list, Head(to_remove).id)}

\* a thread ran into undefined behaviour and the program aborted
Aborted ==
    \/ \E t \in Emitters : em[t].pc = "aborted"
    \/ dret.op = "add_middleware" /\ dret.crashed

\* EventDispatcher::on, what it does to the dispatcher
DoOn(event_name, kind, type, priority, handler_id, once) ==
    /\ ~Aborted
    /\ ons < MaxOn
    /\ LET final_handler_id == IF handler_id = "" THEN SynthesizedId(type) ELSE handler_id
           info == [cb |-> ons + 1, kind |-> kind, type |-> type, priority |-> priority,
                    id |-> final_handler_id, once |-> once, created_at |-> now]
       IN  /\ \E sorted \in SortResults(Append(HandlersOf(event_name), info)) :
                 handlers_' = MapPut(handlers_, event_name, sorted)
           /\ dret' = [op |-> "on", id |-> final_handler_id, synthesized |-> (handler_id = "")]
    /\ ons' = ons + 1

\* on() called with a callback of the user
on(event_name, type, priority, handler_id, once) ==
    /\ DoOn(event_name, "user", type, priority, handler_id, once)
    /\ UNCHANGED <<now, otherVars, middleware_, em, coll, wt>>

\* EventDispatcher::off, what it does to the dispatcher
DoOff(event_name, handler_id) ==
    /\ ~Aborted
    /\ IF event_name \notin DOMAIN handlers_
       THEN /\ dret' = [op |-> "off", event |-> event_name, id |-> handler_id, result |-> FALSE, before |-> << >>]
            /\ UNCHANGED handlers_
       ELSE \E retain \in BOOLEAN :
              LET r == RemoveIf(handlers_[event_name], handler_id, retain)
              IN  /\ handlers_' = [handlers_ EXCEPT ![event_name] = r.list]
                  /\ dret' = [op |-> "off", event |-> event_name, id |-> handler_id,
                              result |-> (r.new_end <= Len(handlers_[event_name])),
                              before |-> handlers_[event_name]]

\* off() called by the user
off(event_name, handler_id) ==
    /\ DoOff(event_name, handler_id)
    /\ UNCHANGED <<now, otherVars, ons, middleware_, em, coll, wt>>

\* EventDispatcher::off_all
off_all(event_name) ==
    /\ ~Aborted
    /\ dret' = [op |-> "off_all", event |-> event_name, result |-> Len(HandlersOf(event_name))]
    /\ handlers_' = [e \in (DOMAIN handlers_) \ {event_name} |-> handlers_[e]]
    /\ UNCHANGED <<now, otherVars, ons, middleware_, em, coll, wt>>

\* the final handler of emit: find the event's vector and copy it under the
\* shared lock
FinalHandler(e) ==
    IF e.event \notin DOMAIN handlers_
    THEN [e EXCEPT !.pc = "done"]
    ELSE [e EXCEPT !.pc = "loop", !.handlers = handlers_[e.event], !.i = 1]

\* emit(event_name, event_data): update_stats and execute_middleware_chain up
\* to the copy of middleware_; with no middleware the final handler is called
EmitBegin(t, event_name, event_data) ==
    /\ ~Aborted
    /\ em[t].pc = "idle"
    /\ LET e == [NoEmit EXCEPT !.event = event_name, !.data = event_data,
                                !.during_wait = (wt.pc = "waiting")]
       IN  em' = [em EXCEPT ![t] =
                     IF middleware_ = << >> THEN FinalHandler([e EXCEPT !.final = TRUE])
                     ELSE [e EXCEPT !.pc = "chain", !.chain = middleware_, !.i = 1]]
    /\ UNCHANGED <<now, otherVars, handlers_, ons, middleware_, dret, coll, wt>>

\* emit: the removal of the one-time handlers under the unique lock
\* (handlers_[event_name] creates the key)
EmitRemove(t) ==
    /\ ~Aborted
    /\ em[t].pc = "loop"
    /\ em[t].i > Len(em[t].handlers)
    /\ IF em[t].to_remove = << >>
       THEN /\ em' = [em EXCEPT ![t].pc = "done"]
            /\ UNCHANGED <<handlers_, dret>>
       ELSE \E o \in EraseAll([ub |-> FALSE, list |-> HandlersOf(em[t].event)], em[t].to_remove) :
              IF o.ub
              THEN /\ em' = [em EXCEPT ![t].pc = "aborted"]
                   /\ UNCHANGED <<handlers_, dret>>
              ELSE /\ em' = [em EXCEPT ![t].pc = "done"]
                   /\ handlers_' = MapPut(handlers_, em[t].event, o.list)
                   /\ dret' = NoDRet
    \* the payloads whose emit began and ended while wait_for was waiting
    /\ wt' = IF em[t].during_wait /\ wt.pc = "waiting" /\ now < wt.deadline
             THEN [wt EXCEPT !.seen = Append(@, em[t].data)]
             ELSE wt
    /\ UNCHANGED <<now, otherVars, ons, middleware_, coll>>

\* the event data: a filter (of wait_for, of a collector) and a validator
\* accept the payload 1 and reject the payload 0
Payloads == {0, 1}
Accepts(event_data) == event_data = 1

\* the middleware classes: get_name() and get_priority()
Middlewares ==
    {[name |-> "RateLimiter", priority |-> 100],
     [name |-> "Validator", priority |-> 50],
     [name |-> "Logger", priority |-> 0 - 100]}

\* whether process() calls next and returns true, or returns false without
\* calling it: RateLimiter continues unless the event's counter has reached the
\* maximum of its window, Validator unless the event's validator rejects the
\* payload or throws, Logger always
Continues(m, event_data) ==
    CASE m.name = "RateLimiter" -> BOOLEAN
      [] m.name = "Validator" -> {Accepts(event_data)}
      [] OTHER -> {TRUE}

\* add_middleware's std::sort by descending priority
SortMiddleware(ms) ==
    {r \in {[i \in 1..Len(ms) |-> ms[p[i]]] : p \in Permutations(1..Len(ms))} :
        \A i, j \in 1..Len(ms) : i < j => ~(r[j].priority > r[i].priority)}

\* EventDispatcher::add_middleware: push_back(std::move(middleware)), sort, and
\* a log line that calls get_name() through the pointer that was moved from,
\* which is null: undefined, the program crashes there or goes on
add_middleware(m) ==
    /\ ~Aborted
    /\ \A i \in 1..Len(middleware_) : middleware_[i].name # m.name
    /\ \E sorted \in SortMiddleware(Append(middleware_, m)) : middleware_' = sorted
    /\ \E crashed \in BOOLEAN : dret' = [op |-> "add_middleware", crashed |-> crashed]
    /\ UNCHANGED <<now, otherVars, handlers_, ons, em, coll, wt>>

\* next_middleware passing a block: the chain goes on whatever process returned
ChainStepIgnoringBlock(e, continues) ==
    LET e2 == [e EXCEPT !.ran = Append(@, [m |-> e.chain[e.i], continued |-> continues]), !.i = @ + 1]
    IN  IF e.i >= Len(e.chain) THEN FinalHandler([e2 EXCEPT !.final = TRUE]) ELSE e2

\* next_middleware of execute_middleware_chain: middleware_chain[index] is
\* processed (ran records it and whether it called next); when it calls next
\* the following one runs, past the last one the final handler; when it does
\* not, the chain ends
ChainStep(e, continues) ==
    LET e2 == [e EXCEPT !.ran = Append(@, [m |-> e.chain[e.i], continued |-> continues]), !.i = @ + 1]
    IN  IF ~continues THEN [e2 EXCEPT !.pc = "done"]
        ELSE IF e.i >= Len(e.chain) THEN FinalHandler([e2 EXCEPT !.final = TRUE])
        ELSE e2

\* one middleware of the chain of an emit
EmitMiddleware(t) ==
    /\ ~Aborted
    /\ em[t].pc = "chain"
    /\ \E continues \in Continues(em[t].chain[em[t].i], em[t].data) :
          em' = [em EXCEPT ![t] = ChainStep(em[t], continues)]
    /\ UNCHANGED <<now, otherVars, handlers_, ons, middleware_, dret, coll, wt>>

\* EventCollector::should_stop_collecting
should_stop_collecting(c) == c.max_matches > 0 /\ Len(c.collected_items_) >= c.max_matches

\* EventCollector::stop: is_active_ = false (the handler stays in the dispatcher)
Stopped(c) == [c EXCEPT !.is_active_ = FALSE]

\* emit's loop: handler_info.callback(event_data) of the handler it has reached.
\*  - an empty std::function throws std::bad_function_call, which is caught;
\*  - a user callback returns;
\*  - wait_for's callback stores the payload its filter accepts;
\*  - a collector's callback returns if the collector is inactive or its filter
\*    rejects, otherwise goes on to lock and push (EmitCollect).
EmitCall(t) ==
    /\ ~Aborted
    /\ em[t].pc = "loop"
    /\ em[t].i <= Len(em[t].handlers)
    /\ LET h == em[t].handlers[em[t].i]
           called == [em[t] EXCEPT !.i = @ + 1, !.calls = Append(@, h),
                                   !.to_remove = IF h.once THEN Append(@, h) ELSE @]
       IN  CASE h.cb = 0 ->
                  /\ em' = [em EXCEPT ![t].i = @ + 1]
                  /\ UNCHANGED <<coll, wt>>
             [] h.cb # 0 /\ h.kind = "user" ->
                  /\ em' = [em EXCEPT ![t] = called]
                  /\ UNCHANGED <<coll, wt>>
             [] h.cb # 0 /\ h.kind = "waiter" /\ wt.pc = "returned" ->
                  \* the callback writes through references to locals of a
                  \* wait_for call that has returned: undefined
                  /\ \/ em' = [em EXCEPT ![t].pc = "aborted"]
                     \/ em' = [em EXCEPT ![t] = called]
                  /\ UNCHANGED <<coll, wt>>
             [] h.cb # 0 /\ h.kind = "waiter" /\ wt.pc # "returned" ->
                  /\ em' = [em EXCEPT ![t] = called]
                  /\ wt' = IF Accepts(em[t].data)
                           THEN [wt EXCEPT !.result = em[t].data, !.event_received = TRUE]
                           ELSE wt
                  /\ UNCHANGED coll
             [] h.cb # 0 /\ h.kind = "collector" ->
                  /\ em' = [em EXCEPT ![t] =
                               IF coll.is_active_ /\ Accepts(em[t].data)
                               THEN [em[t] EXCEPT !.pc = "collect"]
                               ELSE called]
                  /\ UNCHANGED <<coll, wt>>
    /\ UNCHANGED <<now, otherVars, handlers_, ons, middleware_, dret>>

\* the collector's callback: unique_lock, push_back, and stop() when
\* should_stop_collecting
EmitCollect(t) ==
    /\ ~Aborted
    /\ em[t].pc = "collect"
    /\ LET h == em[t].handlers[em[t].i]
           c == [coll EXCEPT !.collected_items_ = Append(@, em[t].data)]
       IN  /\ coll' = IF should_stop_collecting(c) THEN Stopped(c) ELSE c
           /\ em' = [em EXCEPT ![t].pc = "loop", ![t].i = @ + 1, ![t].calls = Append(@, h)]
    /\ UNCHANGED <<now, otherVars, handlers_, ons, middleware_, dret, wt>>

MaxMatches == 1

\* EventDispatcher::wait_for up to the wait: on(event, callback, 0, "", true)
WaitForBegin(event_name, timeout) ==
    /\ wt.pc = "none"
    /\ DoOn(event_name, "waiter", "W", 0, "", TRUE)
    /\ wt' = [NoWait EXCEPT !.pc = "waiting", !.handler_id = SynthesizedId("W"),
                            !.deadline = now + timeout]
    /\ UNCHANGED <<now, otherVars, middleware_, em, coll>>

\* wait_for: cv.wait_for returns (the event was received, or the timeout has
\* passed); off(event, handler_id) if nothing was received; return result
WaitForReturn(event_name) ==
    /\ wt.pc = "waiting"
    /\ wt.event_received \/ now >= wt.deadline
    /\ IF wt.event_received
       THEN ~Aborted /\ UNCHANGED <<handlers_, dret>>
       ELSE DoOff(event_name, wt.handler_id)
    /\ wt' = [wt EXCEPT !.pc = "returned"]
    /\ UNCHANGED <<now, otherVars, ons, middleware_, em, coll>>

\* EventDispatcher::create_collector: EventCollector(filter, config), start()
create_collector(event_name, max_matches, timeout) ==
    /\ ~coll.started
    /\ DoOn(event_name, "collector", "C", 0, "collector_1", FALSE)
    /\ coll' = [NoCollector EXCEPT !.is_active_ = TRUE, !.started = TRUE, !.start_time_ = now,
                                   !.max_matches = max_matches, !.timeout = timeout]
    /\ UNCHANGED <<now, otherVars, middleware_, em, wt>>

\* EventCollector::stop called by the owner
stop ==
    /\ ~Aborted
    /\ coll.is_active_
    /\ coll' = Stopped(coll)
    /\ UNCHANGED <<now, otherVars, handlers_, ons, middleware_, em, dret, wt>>

\* EventCollector::wait_for_all returns: the collector has what it waits for
\* or is inactive, or the deadline of the call has passed
wait_for_all ==
    /\ ~Aborted
    /\ coll.started
    /\ coll' = [coll EXCEPT !.returned = coll.collected_items_]
    /\ UNCHANGED <<now, otherVars, handlers_, ons, middleware_, em, dret, wt>>

\* The dispatcher with handlers of the user registered and removed while time
\* passes, and an emit
NextDispatcher ==
    \/ \E type \in CallableTypes, priority \in Priorities, handler_id \in GivenIds, once \in BOOLEAN :
          on("E", type, priority, handler_id, once)
    \/ \E handler_id \in {"a", "handler_F", "handler_G"} : off("E", handler_id)
    \/ off_all("E")
    \/ EmitBegin(1, "E", 1)
    \/ EmitCall(1)
    \/ EmitRemove(1)
    \/ Tick

SpecDispatcher == Init /\ [][NextDispatcher]_vars

\* Handlers, one-time ones among them, and emits running on several threads
NextOneShot ==
    \/ \E priority \in Priorities, handler_id \in GivenIds, once \in BOOLEAN :
          on("E", "F", priority, handler_id, once)
    \/ \E t \in Emitters : EmitBegin(t, "E", 1)
    \/ \E t \in Emitters : EmitCall(t)
    \/ \E t \in Emitters : EmitRemove(t)

SpecOneShot == Init /\ [][NextOneShot]_vars

\* wait_for beside emits
NextWaitFor ==
    \/ \E timeout \in 1..MaxTime : WaitForBegin("E", timeout)
    \/ WaitForReturn("E")
    \/ \E t \in Emitters, event_data \in Payloads : EmitBegin(t, "E", event_data)
    \/ \E t \in Emitters : EmitCall(t)
    \/ \E t \in Emitters : EmitRemove(t)
    \/ Tick

SpecWaitFor == Init /\ [][NextWaitFor]_vars

\* a collector beside emits
NextCollector ==
    \/ \E max_matches \in 1..MaxMatches, timeout \in 1..MaxTime : create_collector("E", max_matches, timeout)
    \/ stop
    \/ wait_for_all
    \/ \E t \in Emitters, event_data \in Payloads : EmitBegin(t, "E", event_data)
    \/ \E t \in Emitters : EmitCall(t)
    \/ \E t \in Emitters : EmitCollect(t)
    \/ \E t \in Emitters : EmitRemove(t)
    \/ Tick

SpecCollector == Init /\ [][NextCollector]_vars

\* an emit through a chain of middleware, while middleware and handlers are
\* added
NextMiddleware ==
    \/ \E m \in Middlewares : add_middleware(m)
    \/ \E priority \in Priorities : on("E", "F", priority, "a", FALSE)
    \/ \E event_data \in Payloads : EmitBegin(1, "E", event_data)
    \/ EmitMiddleware(1)
    \/ EmitCall(1)
    \/ EmitRemove(1)

SpecMiddleware == Init /\ [][NextMiddleware]_vars


(***************************************************************************)
(* Properties of the EventDispatcher                                       *)
(***************************************************************************)
\* number of invocations, over all emits, of the callable handed to the n-th on()
InvocationsOf(n) ==
    Cardinality({p \in Emitters \X (1..MaxOn) :
                    /\ p[2] <= Len(em[p[1]].calls)
                    /\ em[p[1]].calls[p[2]].cb = n})

\* the n-th on() registered a one-time handler that an emit has invoked
InvokedOnce(n) ==
    \E t \in Emitters : \E i \in 1..Len(em[t].calls) :
        em[t].calls[i].cb = n /\ em[t].calls[i].once

\* C11: a handler registered with once = true is invoked once only, however
\* many emits of its event are made and however they interleave.
C11_OneShotFiresOnce ==
    \A n \in 1..MaxOn : InvokedOnce(n) => InvocationsOf(n) = 1

\* C12: the handlers an emit invokes are in non-increasing priority, and those
\* of equal priority in the order of their registration with on().
C12_PriorityThenInsertionOrder ==
    \A t \in Emitters : \A i, j \in 1..Len(em[t].calls) :
        i < j => /\ em[t].calls[i].priority >= em[t].calls[j].priority
                 /\ em[t].calls[i].priority = em[t].calls[j].priority
                       => em[t].calls[i].cb <= em[t].calls[j].cb

\* C17: off(event, id) returns true exactly when a handler with that id was
\* registered, and leaves the other handlers, in their order, and no handler
\* with that id; off_all(event) leaves no handler for the event.
C17_OffRemoves ==
    /\ dret.op = "off" =>
          /\ dret.result = (\E i \in 1..Len(dret.before) : dret.before[i].id = dret.id)
          /\ HandlersOf(dret.event) = SelectSeq(dret.before, LAMBDA x : x.id # dret.id)
    /\ dret.op = "off_all" => HandlersOf(dret.event) = << >>

\* C18: the id on() synthesizes when none is given is the id of no other
\* handler registered in the dispatcher.
C18_SynthesizedIdUnique ==
    (dret.op = "on" /\ dret.synthesized)
        => \A e \in DOMAIN handlers_ :
              Cardinality({i \in 1..Len(handlers_[e]) : handlers_[e][i].id = dret.id}) = 1

\* a payload the filter accepts was emitted, start to end, while wait_for waited
MatchEmittedInTime == \E i \in 1..Len(wt.seen) : Accepts(wt.seen[i])

\* a handler with the id of wait_for's handler is registered
WaiterRegistered ==
    \E e \in DOMAIN handlers_ : \E i \in 1..Len(handlers_[e]) : handlers_[e][i].id = wt.handler_id

\* C13: wait_for receives the first payload its filter accepts that is emitted
\* within the timeout, payloads the filter rejects having been emitted before
\* it or not; it returns none only when no such payload was emitted, and then
\* its handler is no longer registered.
C13_WaitForFirstMatch ==
    /\ (wt.pc = "waiting" /\ MatchEmittedInTime) => wt.event_received
    /\ (wt.pc = "returned" /\ wt.result = NoResult) => (~MatchEmittedInTime /\ ~WaiterRegistered)
    /\ (wt.pc = "returned" /\ wt.result # NoResult) => Accepts(wt.result)

\* C14: a collector with max_matches > 0 is inactive once it holds max_matches
\* items or its timeout has passed, never holds more than max_matches items,
\* and wait_for_all returns no more than max_matches items.
C14_CollectorStopsAtLimit ==
    (coll.started /\ coll.max_matches > 0) =>
        /\ Len(coll.collected_items_) <= coll.max_matches
        /\ Len(coll.returned) <= coll.max_matches
        /\ coll.is_active_ => /\ Len(coll.collected_items_) < coll.max_matches
                              /\ now - coll.start_time_ <= coll.timeout

\* C15: once a collector has stopped, its handler is no longer registered in
\* the dispatcher.
C15_StoppedCollectorUnsubscribed ==
    (coll.started /\ ~coll.is_active_) =>
        \A e \in DOMAIN handlers_ : \A i \in 1..Len(handlers_[e]) : handlers_[e][i].kind # "collector"

\* the middleware of an emit's chain that did not call next
Blocked(e) == {i \in 1..Len(e.ran) : ~e.ran[i].continued}

\* C16: the middleware of one emit run in descending priority; when one of them
\* does not call next, those before it have run, none after it runs and no
\* handler runs; the handlers run exactly when every middleware of the chain
\* called next.
C16_MiddlewareChain ==
    \A t \in Emitters :
        LET e == em[t]
        IN  /\ Len(e.ran) <= Len(e.chain)
            /\ \A i \in 1..Len(e.ran) : e.ran[i].m = e.chain[i]
            /\ \A i, j \in 1..Len(e.ran) : i < j => e.ran[i].m.priority >= e.ran[j].m.priority
            /\ \A i \in Blocked(e) : i = Len(e.ran) /\ e.pc = "done"
            /\ Blocked(e) # {} => ~e.final /\ e.calls = << >> /\ e.handlers = << >>
            /\ e.final <=> /\ e.pc \notin {"idle", "chain"}
                           /\ Len(e.ran) = Len(e.chain)
                           /\ Blocked(e) = {}
            /\ e.calls # << >> => e.final

\* an emit whose payload the Validator rejected: the RateLimiter before it has
\* run, the Logger after it has not, and the registered handler was not called
C16_ValidatorBlocked ==
    \E t \in Emitters :
        /\ em[t].pc = "done"
        /\ Len(em[t].chain) = 3
        /\ Len(em[t].ran) = 2
        /\ em[t].ran[1].m.name = "RateLimiter" /\ em[t].ran[1].continued
        /\ em[t].ran[2].m.name = "Validator" /\ ~em[t].ran[2].continued
        /\ HandlersOf(em[t].event) # << >>
        /\ em[t].calls = << >>

(***************************************************************************)
(* CacheManager                                                            *)
(* Every public operation holds mutex_ from its first to its last          *)
(* statement: each is one step. The clock is system_clock, in seconds.     *)
(***************************************************************************)
cacheRest == <<now, limiterVars, queueVars, httpVars, eventVars, wsVars, rmVars, smVars, obsVars, hb, mgr, call, rc>>

TimePointAt(t) == [max |-> FALSE, t |-> t]

\* CacheEntry(value, ttl, persistent); created_at is read by export_cache only
\* and is left out
CacheEntry(value, ttl, persistent) ==
    [value |-> value,
     expires_at |-> IF ttl > 0 THEN TimePointAt(now + ttl) ELSE TimePointMax,
     is_persistent |-> persistent]

\* is_expired() that lets an entry live one second past its expiry
is_expired_late(entry) ==
    ~entry.is_persistent /\ ~entry.expires_at.max /\ now > entry.expires_at.t + 1

\* CacheEntry::is_expired()
is_expired(entry) ==
    ~entry.is_persistent /\ ~entry.expires_at.max /\ now > entry.expires_at.t

\* cache_ without the keys of a set
MapErase(m, ks) == [x \in (DOMAIN m) \ ks |-> m[x]]

should_cleanup(c) == now - c.last_cleanup_ >= c.config_.cleanup_interval

\* cleanup_expired(force)
cleanup_expired(c, force) ==
    IF ~force /\ ~should_cleanup(c) THEN c
    ELSE [c EXCEPT !.cache_ = MapErase(@, {k \in DOMAIN @ : is_expired(@[k])}),
                   !.last_cleanup_ = now]

\* the `if (should_cleanup()) cleanup_expired();` that opens the writes
CleanedUp(c) == IF should_cleanup(c) THEN cleanup_expired(c, FALSE) ELSE c

\* static_cast<size_t>(cache_.size() * config_.cleanup_threshold), with the
\* threshold 0.8f of CacheConfig()
ThresholdOf(size) == (size * 4) \div 5

\* evict_lru that does not skip the persistent entries
evict_lru_any(cache, required_space) ==
    IF cache = << >> THEN {cache}
    ELSE LET to_remove == IF required_space > 0 THEN required_space
                          ELSE ThresholdOf(Cardinality(DOMAIN cache))
             removed == IF to_remove < Cardinality(DOMAIN cache) THEN to_remove
                        ELSE Cardinality(DOMAIN cache)
         IN {MapErase(cache, ks) : ks \in {x \in SUBSET DOMAIN cache : Cardinality(x) = removed}}

\* evict_lru(required_space): the first to_remove entries that are not
\* persistent, in the iteration order of the unordered_map, which is any
\* order. The maps it can leave.
evict_lru(cache, required_space) ==
    IF cache = << >> THEN {cache}
    ELSE LET to_remove == IF required_space > 0 THEN required_space
                          ELSE ThresholdOf(Cardinality(DOMAIN cache))
             candidates == {k \in DOMAIN cache : ~cache[k].is_persistent}
             removed == IF to_remove < Cardinality(candidates) THEN to_remove
                        ELSE Cardinality(candidates)
         IN {MapErase(cache, ks) : ks \in {x \in SUBSET candidates : Cardinality(x) = removed}}

\* `if (cache_.size() >= config_.max_entries) evict_lru();`
EvictedIfFull(c) ==
    IF Cardinality(DOMAIN c.cache_) >= c.config_.max_entries
    THEN evict_lru(c.cache_, 0) ELSE {c.cache_}

EffectiveTtl(c, ttl) == IF ttl > 0 THEN ttl ELSE c.config_.default_ttl

\* what a call leaves for the properties: what the reading calls returned,
\* and whether a write made room by a cleanup or an eviction and spared a
\* persistent entry that was held
CacheReturn(r) == [cio EXCEPT !.ret = r]
MadeRoom(cache) ==
    [op |-> "write", made_room |-> DOMAIN cache # DOMAIN cm.cache_,
     spared |-> /\ DOMAIN cache # DOMAIN cm.cache_
                /\ \E k \in DOMAIN cm.cache_ : cm.cache_[k].is_persistent]

\* set(key, value, ttl)
CacheSet(key, value, ttl) ==
    /\ \E cache \in EvictedIfFull(CleanedUp(cm)) :
         /\ cm' = [CleanedUp(cm) EXCEPT !.cache_ =
                      MapPut(cache, key, CacheEntry(value, EffectiveTtl(cm, ttl), FALSE))]
         /\ cio' = CacheReturn(MadeRoom(cache))
    /\ UNCHANGED cacheRest

\* set_persistent(key, value)
set_persistent(key, value) ==
    /\ \E cache \in EvictedIfFull(CleanedUp(cm)) :
         /\ cm' = [CleanedUp(cm) EXCEPT !.cache_ = MapPut(cache, key, CacheEntry(value, 0, TRUE))]
         /\ cio' = CacheReturn(MadeRoom(cache))
    /\ UNCHANGED cacheRest

RECURSIVE PutAll(_, _, _)
PutAll(cache, ks, entry) ==
    IF ks = {} THEN cache
    ELSE LET k == CHOOSE x \in ks : TRUE
         IN PutAll(MapPut(cache, k, entry), ks \ {k}, entry)

\* set_multiple(entries, ttl): the entries carry one value here
set_multiple(ks, value, ttl) ==
    /\ LET c == CleanedUp(cm)
           required_space == Cardinality(ks)
       IN \E cache \in (IF Cardinality(DOMAIN c.cache_) + required_space > c.config_.max_entries
                        THEN evict_lru(c.cache_, required_space) ELSE {c.cache_}) :
            /\ cm' = [c EXCEPT !.cache_ =
                         PutAll(cache, ks, CacheEntry(value, EffectiveTtl(cm, ttl), FALSE))]
            /\ cio' = CacheReturn(MadeRoom(cache))
    /\ UNCHANGED cacheRest

\* set_config(config)
set_config(config) ==
    /\ \E cache \in (IF Cardinality(DOMAIN cm.cache_) > config.max_entries
                     THEN evict_lru(cm.cache_, Cardinality(DOMAIN cm.cache_) - config.max_entries)
                     ELSE {cm.cache_}) :
         /\ cm' = [cm EXCEPT !.config_ = config, !.cache_ = cache]
         /\ cio' = CacheReturn(MadeRoom(cache))
    /\ UNCHANGED cacheRest

force_cleanup ==
    /\ cm' = cleanup_expired(cm, TRUE)
    /\ cio' = CacheReturn(MadeRoom(cleanup_expired(cm, TRUE).cache_))
    /\ UNCHANGED cacheRest

\* get(key): std::nullopt is NoResult
CacheGet(key) ==
    /\ cm' = IF key \in DOMAIN cm.cache_ /\ is_expired(cm.cache_[key])
             THEN [cm EXCEPT !.cache_ = MapErase(@, {key})] ELSE cm
    /\ cio' = CacheReturn([op |-> "get", key |-> key,
                           erased |-> key \in DOMAIN cm.cache_ /\ is_expired(cm.cache_[key]),
                           result |-> IF key \in DOMAIN cm.cache_ /\ ~is_expired(cm.cache_[key])
                                      THEN cm.cache_[key].value ELSE NoResult])
    /\ UNCHANGED cacheRest

\* exists(key)
CacheExists(key) ==
    /\ cm' = IF key \in DOMAIN cm.cache_ /\ is_expired(cm.cache_[key])
             THEN [cm EXCEPT !.cache_ = MapErase(@, {key})] ELSE cm
    /\ cio' = CacheReturn([op |-> "exists", key |-> key,
                           result |-> key \in DOMAIN cm.cache_ /\ ~is_expired(cm.cache_[key])])
    /\ UNCHANGED cacheRest

\* keys("*"): the pattern matches every key
CacheKeysAll ==
    /\ cio' = CacheReturn([op |-> "keys",
                           result |-> {k \in DOMAIN cm.cache_ : ~is_expired(cm.cache_[k])}])
    /\ UNCHANGED <<cm, cacheRest>>

\* remove(key)
CacheRemove(key) ==
    /\ cm' = [cm EXCEPT !.cache_ = MapErase(@, {key})]
    /\ cio' = CacheReturn([op |-> "remove"])
    /\ UNCHANGED cacheRest

\* clear()
CacheClear ==
    /\ cm' = [cm EXCEPT !.cache_ = << >>]
    /\ cio' = CacheReturn([op |-> "clear"])
    /\ UNCHANGED cacheRest

\* update_ttl(key, ttl)
update_ttl(key, ttl) ==
    /\ cm' = IF key \in DOMAIN cm.cache_ /\ ~cm.cache_[key].is_persistent
             THEN [cm EXCEPT !.cache_[key].expires_at =
                       IF ttl > 0 THEN TimePointAt(now + ttl) ELSE TimePointMax]
             ELSE cm
    /\ cio' = CacheReturn([op |-> "other"])
    /\ UNCHANGED cacheRest

\* ---- export and import
\* duration_cast<seconds>(expires_at.time_since_epoch()).count(): a 64-bit
\* count, kept as q * 2^30 + r. The run starts ClockStart seconds after the
\* epoch; time_point::max() is 2^63 - 1 nanoseconds, 9223372036 seconds.
SecondsOf(n) == IF n >= 0 THEN [q |-> n \div TwoTo30, r |-> n % TwoTo30]
                ELSE [q |-> 0 - 1, r |-> n + TwoTo30]
SecondsSinceEpoch(time_point) ==
    IF time_point.max THEN [q |-> 8, r |-> 633437444]
    ELSE SecondsOf(ClockStart + time_point.t)

\* entry_data.value("expires_at", 0): the default is an int, so the stored
\* count is converted to int, which keeps its low 32 bits
ValueAsInt(seconds) ==
    IF seconds.q % 4 < 2 THEN (seconds.q % 4) * TwoTo30 + seconds.r
    ELSE ((seconds.q % 4) - 4) * TwoTo30 + seconds.r

\* system_clock::time_point(std::chrono::seconds(count))
TimePointOfSeconds(count) == TimePointAt(count - ClockStart)

\* export_cache(): the entries that are not expired
export_cache ==
    /\ LET live == {k \in DOMAIN cm.cache_ : ~is_expired(cm.cache_[k])}
       IN cio' = [ret |-> [op |-> "other"],
                  exported |-> [entries |-> [k \in live |->
                                    [value |-> cm.cache_[k].value,
                                     expires_at |-> SecondsSinceEpoch(cm.cache_[k].expires_at),
                                     is_persistent |-> cm.cache_[k].is_persistent]],
                                of |-> [k \in live |-> cm.cache_[k]],
                                at |-> now]]
    /\ UNCHANGED <<cm, cacheRest>>

\* import_cache(data, overwrite) of the data last exported
import_cache(overwrite) ==
    /\ cio.exported # NoExport
    /\ LET data == cio.exported.entries
           taken == {k \in DOMAIN data : overwrite \/ k \notin DOMAIN cm.cache_}
       IN /\ cm' = [cm EXCEPT !.cache_ =
                      [k \in (DOMAIN @) \cup taken |->
                          IF k \in taken
                          THEN [value |-> data[k].value,
                                expires_at |-> TimePointOfSeconds(ValueAsInt(data[k].expires_at)),
                                is_persistent |-> data[k].is_persistent]
                          ELSE @[k]]]
          /\ cio' = CacheReturn([op |-> "import_cache", overwrite |-> overwrite,
                                 into_empty |-> cm.cache_ = << >>])
    /\ UNCHANGED cacheRest

CacheConfigs == [max_entries : 1..MaxEntries, default_ttl : {0, 1}, cleanup_interval : {1}]

\* the writes, the cleanups and the capacity of the cache
NextCache ==
    \/ \E key \in CacheKeys, value \in CacheValues, ttl \in {0, 1} : CacheSet(key, value, ttl)
    \/ \E key \in CacheKeys, value \in CacheValues : set_persistent(key, value)
    \/ \E ks \in SUBSET CacheKeys, value \in CacheValues, ttl \in {0, 1} : set_multiple(ks, value, ttl)
    \/ \E config \in CacheConfigs : set_config(config)
    \/ \E key \in CacheKeys : CacheRemove(key)
    \/ force_cleanup
    \/ \E key \in CacheKeys : CacheGet(key)
    \/ CacheClear
    \/ Tick

SpecCache == Init /\ [][NextCache]_vars

\* The expiry of the entries, and their export and import. One export is
\* followed: once data is exported the run goes on with the calls that read,
\* empty or import.
NextCacheExport ==
    \/ /\ cio.exported = NoExport
       /\ \/ \E key \in CacheKeys, value \in CacheValues, ttl \in {0, 1} : CacheSet(key, value, ttl)
          \/ \E key \in CacheKeys, value \in CacheValues : set_persistent(key, value)
          \/ \E key \in CacheKeys, ttl \in {0, 1} : update_ttl(key, ttl)
          \/ export_cache
    \/ \E key \in CacheKeys : CacheGet(key)
    \/ \E key \in CacheKeys : CacheExists(key)
    \/ CacheKeysAll
    \/ CacheClear
    \/ \E overwrite \in BOOLEAN : import_cache(overwrite)
    \/ Tick

SpecCacheExport == Init /\ [][NextCacheExport]_vars

(***************************************************************************)
(* Properties of the CacheManager                                          *)
(***************************************************************************)
\* the expiry of an entry has passed (persistent entries have none)
ExpiryPassed(entry) ==
    ~entry.is_persistent /\ ~entry.expires_at.max /\ entry.expires_at.t < now

\* C31: get(k) on an entry whose expiry has passed returns none and removes
\* the entry (it is no longer held, so exists(k) is false, and size() has
\* dropped by one), and keys("*") never contains the key of an entry whose
\* expiry has passed.
C31_ExpiredEntryGone ==
    [][/\ \A key \in CacheKeys :
            (CacheGet(key) /\ key \in DOMAIN cm.cache_ /\ ExpiryPassed(cm.cache_[key])) =>
                /\ cio'.ret.result = NoResult
                /\ key \notin DOMAIN cm'.cache_
                /\ Cardinality(DOMAIN cm'.cache_) = Cardinality(DOMAIN cm.cache_) - 1
       /\ \A key \in CacheKeys :
            (CacheExists(key) /\ (key \notin DOMAIN cm.cache_ \/ ExpiryPassed(cm.cache_[key]))) =>
                ~cio'.ret.result
       /\ CacheKeysAll => \A key \in cio'.ret.result : ~ExpiryPassed(cm.cache_[key])]_vars

\* get found an imported entry expired and erased it
C31_ExpiredImportErased ==
    /\ cio.ret.op = "get"
    /\ cio.ret.erased
    /\ cio.ret.result = NoResult
    /\ cio.ret.key \in DOMAIN cio.exported.entries
    /\ cio.ret.key \notin DOMAIN cm.cache_

\* a step that removes the key on request, or writes it
ExplicitlyChanged(key) ==
    \/ CacheRemove(key)
    \/ CacheClear
    \/ \E value \in CacheValues, ttl \in {0, 1} : CacheSet(key, value, ttl)
    \/ \E value \in CacheValues : set_persistent(key, value)
    \/ \E ks \in SUBSET CacheKeys, value \in CacheValues, ttl \in {0, 1} :
          key \in ks /\ set_multiple(ks, value, ttl)

\* C32: an entry stored with set_persistent(k, v) stays held with value v,
\* and get(k) returns v, through every clock advance, cleanup and eviction
\* caused by other keys; it goes only by remove, clear or a later write to k.
C32_PersistentEntryKept ==
    [][\A key \in CacheKeys :
          (key \in DOMAIN cm.cache_ /\ cm.cache_[key].is_persistent) =>
             /\ \/ key \in DOMAIN cm'.cache_ /\ cm'.cache_[key] = cm.cache_[key]
                \/ ExplicitlyChanged(key)
             /\ CacheGet(key) => cio'.ret.result = cm.cache_[key].value]_vars

\* a write made room while a persistent entry was held, which is held still
C32_PersistentSurvivedEviction ==
    /\ cio.ret.op = "write"
    /\ cio.ret.made_room
    /\ cio.ret.spared
    /\ \E key \in DOMAIN cm.cache_ : cm.cache_[key].is_persistent

\* C33: export_cache() followed by import_cache(data, overwrite = true) into
\* an empty cache yields the same set of non-expired keys, each with the same
\* value, persistence flag and expiry (entries that never expire included),
\* and no entry that was expired at export time.
C33_ExportImportRoundTrip ==
    (cio.ret.op = "import_cache" /\ cio.ret.overwrite /\ cio.ret.into_empty) =>
        LET before == cio.exported.of
            live == {k \in DOMAIN cm.cache_ : ~is_expired(cm.cache_[k])}
        IN /\ live = {k \in DOMAIN before : ~is_expired(before[k])}
           /\ \A k \in live : cm.cache_[k] = before[k]

\* C40: the number of entries held does not exceed config.max_entries.
C40_WithinCapacity ==
    Cardinality(DOMAIN cm.cache_) <= cm.config_.max_entries

====
